---- MODULE Spec2Model ----
(***************************************************************************)
(* The ReAct loop of the multi-tool agent (src/src/workflow.py) with its   *)
(* action parser, termination policy and tool set (src/src/tools.py).      *)
(*                                                                         *)
(* Text.  A Python string is modelled as a sequence of tokens.  The four   *)
(* section markers, the newline, the quote characters and the braces are   *)
(* tokens of their own, every other token is an opaque run of characters   *)
(* that contains no marker and no whitespace at its ends.  The empty       *)
(* string is <<>>.  Python's None is the one-token text NoneVal, a key     *)
(* that a node has never written is Absent; neither token occurs in any    *)
(* text the model can produce.                                             *)
(* Indices are 1-based: Python's s.find(m) = -1 is Find(s, m, 1) = 0.      *)
(***************************************************************************)
EXTENDS Integers, Sequences, FiniteSets, TLC

NoneVal == <<"<None>">>
Absent == <<"<absent>">>
NL == "\n"
NoMarker == "<no end marker>"

\* A dict with at most one key: key "" is the empty dict {}.  val is the
\* string value, num the integer value of the key 'days'.
EmptyDict == [key |-> "", val |-> <<>>, num |-> 0]
NoneDict == [key |-> "<None>", val |-> <<>>, num |-> 0]
Dict(k, v) == [key |-> k, val |-> v, num |-> 0]
DaysDict(n) == [key |-> "days", val |-> <<>>, num |-> n]

--------------------------------------------------------------------------
(* Python string primitives on token sequences *)

\* marker in text
Contains(text, tok) == \E i \in 1..Len(text) : text[i] = tok

\* text.find(tok, start): the first index >= start holding tok, 0 if none
Find(text, tok, start) ==
    IF \E i \in start..Len(text) : text[i] = tok
    THEN CHOOSE i \in start..Len(text) :
             /\ text[i] = tok
             /\ \A j \in start..(i - 1) : text[j] # tok
    ELSE 0

IsSpace(tok) == tok = NL

RECURSIVE LStrip(_)
LStrip(s) == IF s # <<>> /\ IsSpace(Head(s)) THEN LStrip(Tail(s)) ELSE s

RECURSIVE RStrip(_)
RStrip(s) ==
    IF s # <<>> /\ IsSpace(s[Len(s)]) THEN RStrip(SubSeq(s, 1, Len(s) - 1)) ELSE s

\* s.strip()
Strip(s) == RStrip(LStrip(s))

\* s.split('\n')[0].strip()
FirstLine(s) ==
    LET nl == Find(s, NL, 1)
    IN  IF nl = 0 THEN Strip(s) ELSE Strip(SubSeq(s, 1, nl - 1))

--------------------------------------------------------------------------
(* workflow.py helpers *)

extract_between(text, start_marker, end_marker) ==
    IF ~Contains(text, start_marker)
    THEN <<>>
    ELSE LET start == Find(text, start_marker, 1) + 1
             found == IF end_marker = NoMarker THEN 0
                      ELSE Find(text, end_marker, start)
             end   == IF found = 0 THEN Len(text) + 1 ELSE found
         IN  Strip(SubSeq(text, start, end - 1))

IsQuote(tok) == tok \in {"'", "\""}

\* Faulty variant of clean_input_text: the outer quotes are kept
clean_input_text_keeps_quotes(input_text) == Strip(input_text)

clean_input_text(input_text) ==
    LET n == Len(input_text)
        quoted == /\ n >= 1
                  /\ \/ input_text[1] = "'" /\ input_text[n] = "'"
                     \/ input_text[1] = "\"" /\ input_text[n] = "\""
    IN  Strip(IF quoted THEN SubSeq(input_text, 2, n - 1) ELSE input_text)

\* re.search(r"\{['\"]<key>['\"]:\s*['\"](.+?)['\"]\}", text): the group of
\* the leftmost match, the lazy group being the shortest one; <<>> with
\* matched = FALSE when the pattern occurs nowhere.  '.' matches no newline.
DictPatternAt(text, key, i, gs, ge) ==
    /\ i + 4 <= Len(text)
    /\ text[i] = "{" /\ IsQuote(text[i + 1]) /\ text[i + 2] = key
    /\ IsQuote(text[i + 3]) /\ text[i + 4] = ":"
    /\ gs >= i + 6 /\ ge >= gs /\ ge + 2 <= Len(text)
    /\ \A j \in (i + 5)..(gs - 2) : IsSpace(text[j])
    /\ IsQuote(text[gs - 1])
    /\ \A j \in gs..ge : text[j] # NL
    /\ IsQuote(text[ge + 1]) /\ text[ge + 2] = "}"

DictPatternSearch(text, key) ==
    LET n == Len(text)
        Hits == {h \in (1..n) \X (1..n) \X (1..n) :
                    DictPatternAt(text, key, h[1], h[2], h[3])}
    IN  IF Hits = {} THEN [matched |-> FALSE, group |-> <<>>]
        ELSE LET h == CHOOSE h \in Hits : \A g \in Hits :
                          \/ h[1] < g[1]
                          \/ h[1] = g[1] /\ h[3] <= g[3]
             IN  [matched |-> TRUE, group |-> SubSeq(text, h[2], h[3])]

\* Decimal numerals: the tokens str(n) for 0 <= n <= MaxNumeral
MaxNumeral == 30
MaxToday == 1
Numerals == {ToString(n) : n \in 0..MaxNumeral}
IntOf(tok) == CHOOSE n \in 0..MaxNumeral : ToString(n) = tok

\* Faulty variant of IsIntegerText: the pattern is ^\d+$, without the sign
IsIntegerTextUnsigned(s) == Len(s) = 1 /\ s[1] \in Numerals

\* re.match(r'^-?\d+$', input_text)
IsIntegerText(s) ==
    \/ Len(s) = 1 /\ s[1] \in Numerals
    \/ Len(s) = 2 /\ s[1] = "-" /\ s[2] \in Numerals

\* int(input_text) for a text IsIntegerText accepts
ParseInt(s) == IF Len(s) = 2 THEN 0 - IntOf(s[2]) ELSE IntOf(s[1])

\* str.lower(), token by token
LowerTok(tok) ==
    CASE tok = "None" -> "none"
      [] tok = "NONE" -> "none"
      [] tok = "Until" -> "until"
      [] tok = "Days to" -> "days to"
      [] tok = "IMPORT" -> "import"
      [] tok = "Eval" -> "eval"
      [] tok = "EXEC" -> "exec"
      [] tok = "Recursion limit" -> "recursion limit"
      [] OTHER -> tok

Lower(s) == [i \in 1..Len(s) |-> LowerTok(s[i])]

parse_tool_input(tool_name, raw_input) ==
    LET input_text == clean_input_text(raw_input)
    IN  CASE tool_name = <<"calculator">> -> Dict("expression", input_text)
          [] tool_name = <<"datetime">> ->
                IF input_text # <<>> /\ Lower(input_text) # <<"none">>
                THEN Dict("format", input_text)
                ELSE EmptyDict
          [] tool_name = <<"web_search">> ->
                LET m == DictPatternSearch(input_text, "query")
                IN  Dict("query", IF m.matched THEN m.group ELSE input_text)
          [] tool_name = <<"datecalculator">> ->
                LET m == DictPatternSearch(input_text, "target_date")
                    text == IF m.matched THEN m.group ELSE input_text
                IN  IF IsIntegerText(text)
                    THEN DaysDict(ParseInt(text))
                    ELSE Dict("target_date", text)
          [] OTHER -> EmptyDict

\* re.findall(r'\d+', question): the digit runs of the question, in order
RECURSIVE DigitRuns(_)
DigitRuns(s) ==
    IF s = <<>> THEN <<>>
    ELSE IF Head(s) \in Numerals THEN <<Head(s)>> \o DigitRuns(Tail(s))
    ELSE DigitRuns(Tail(s))

parse_tool_input_from_question(tool_name, question) ==
    IF tool_name = <<"datecalculator">>
    THEN LET numbers == DigitRuns(question)
         IN  IF Contains(Lower(question), "until")
                \/ Contains(Lower(question), "days to")
             THEN EmptyDict
             ELSE IF numbers # <<>> THEN DaysDict(IntOf(numbers[1]))
             ELSE DaysDict(0)
    ELSE EmptyDict

\* str(tool_input): the repr of the dict
StrDict(d) ==
    CASE d.key = "" -> <<"{}">>
      [] d.key = "<None>" -> <<"None">>
      [] d.key = "days" -> <<"{", "'", "days", "'", ":", ToString(d.num), "}">>
      [] OTHER -> <<"{", "'", d.key, "'", ":", "'">> \o d.val \o <<"'", "}">>

--------------------------------------------------------------------------
(* tools.py: every execute returns the set of texts it can return; the    *)
(* clock (today, a day number, day 0 being a Thursday) and the web (page) *)
(* are the environment.                                                   *)

WeekdayNames ==
    <<"Monday", "Tuesday", "Wednesday", "Thursday", "Friday", "Saturday", "Sunday">>

\* date.strftime('%A') of day number n
Weekday(n) == WeekdayNames[((n + 3) % 7) + 1]

\* date.strftime('%A, %B %d, %Y') and date.strftime('%B %d, %Y')
LongDate(n) == <<Weekday(n), ",", "day", ToString(n)>>
ShortDate(n) == <<"day", ToString(n)>>

BadTokens == {"import", "exec", "eval", "__"}

\* eval(expression, {"__builtins__": {}}, allowed_names) on the expressions
\* of the model: a value, or the message of the exception it raises
PyEval(expression) ==
    CASE expression = <<"15 * 23 + 47">> -> [ok |-> TRUE, text |-> "392"]
      [] expression = <<"2 + 2">> -> [ok |-> TRUE, text |-> "4"]
      [] expression = <<"1/0">> -> [ok |-> FALSE, text |-> "division by zero"]
      [] OTHER -> [ok |-> FALSE, text |-> "invalid syntax"]

\* Faulty variant of Rejected: the expression is not lower-cased
RejectedCaseSensitive(expression) ==
    \E bad \in BadTokens : Contains(expression, bad)

\* any(bad in expression.lower() for bad in [...])
Rejected(expression) ==
    \E bad \in BadTokens : Contains(Lower(expression), bad)

CalculatorTool_execute(expression) ==
    IF Rejected(expression)
    THEN {<<"Error:", "Invalid expression">>}
    ELSE LET r == PyEval(expression)
         IN  IF r.ok THEN {<<"Result:", r.text>>}
             ELSE {<<"Error:", "Could not calculate.", r.text>>}

\* now.strftime(format): directives are replaced, other text is copied
StrftimeTok(tok, now) ==
    CASE tok = "%A" -> Weekday(now)
      [] tok = "%Y-%m-%d" -> ToString(now)
      [] OTHER -> tok

Strftime(format, now) == [i \in 1..Len(format) |-> StrftimeTok(format[i], now)]

DateTimeTool_execute(kwargs, now) ==
    LET format == IF kwargs.key = "format" THEN kwargs.val ELSE NoneVal
    IN
    IF format # NoneVal /\ format # <<>>
    THEN {Strftime(format, now)}
         \cup (IF Contains(format, "%Q")
               THEN {<<"Error:", "Invalid format string", "'">> \o format
                        \o <<"'.", "Invalid format string">>}
               ELSE {})
    ELSE {<<"Current date and time:", NL, "- Date:", ToString(now), NL,
            "- Day:", Weekday(now), NL, "- Timezone: Local system time">>}

\* dateutil's parser.parse(target_date) on the date texts of the model: the
\* day number of the date, or a failure
DateTexts == {<<"date", ToString(n)>> : n \in 0..MaxNumeral}

\* Date texts that name a timezone: parser.parse returns an aware datetime
AwareDateTexts == {<<"date", ToString(n), "UTC">> : n \in 0..MaxNumeral}

ParsesAsDate(target_date) == target_date \in DateTexts \cup AwareDateTexts
TzAware(target_date) == target_date \in AwareDateTexts
ParseDate(target_date) == IntOf(target_date[2])

\* Faulty variant of TargetDay: the offset is applied without its sign
TargetDayUnsigned(today, days) == today + (IF days < 0 THEN 0 - days ELSE days)

\* today + timedelta(days=days)
TargetDay(today, days) == today + days

DateCalculatorTool_execute(kwargs, today) ==
    LET target_date == IF kwargs.key = "target_date" THEN kwargs.val ELSE NoneVal
        has_days == kwargs.key = "days"
    IN
    IF target_date # NoneVal
    THEN IF ParsesAsDate(target_date) /\ TzAware(target_date)
         THEN \* target - today raises TypeError, caught with the parse errors
              {<<"Error parsing date", "'">> \o target_date
                 \o <<"'.", "Please use formats like 'November 27, 2025' or '2025-11-27'.",
                      "Error:", "can't subtract offset-naive and offset-aware datetimes">>}
         ELSE IF ParsesAsDate(target_date)
         THEN LET target == ParseDate(target_date)
                  days_diff == target - today
              IN  IF days_diff = 0
                  THEN {<<"The target date">> \o ShortDate(target) \o <<"is today!">>}
                  ELSE IF days_diff > 0
                  THEN {<<"Days until">> \o ShortDate(target) \o <<":", NL, "- Today:">>
                         \o LongDate(today) \o <<NL, "- Target:">> \o LongDate(target)
                         \o <<NL, "-", "Days until", ":", ToString(days_diff), "days">>}
                  ELSE {<<"Days since">> \o ShortDate(target) \o <<":", NL, "- Today:">>
                         \o LongDate(today) \o <<NL, "- Target:">> \o LongDate(target)
                         \o <<NL, "-", "Days since", ":", ToString(0 - days_diff),
                              "days ago">>}
         ELSE {<<"Error parsing date", "'">> \o target_date
                 \o <<"'.", "Please use formats like 'November 27, 2025' or '2025-11-27'.">>}
    ELSE IF has_days
    THEN LET d == kwargs.num
             target == TargetDay(today, d)
         IN  IF d = 0
             THEN {<<"Today is">> \o LongDate(today)}
             ELSE IF d > 0
             THEN {<<"Date calculation:", NL, "- Today:">> \o LongDate(today)
                    \o <<NL, "-", ToString(d), "days from today:">> \o LongDate(target)
                    \o <<NL, "- That", "will be a", Weekday(target)>>}
             ELSE {<<"Date calculation:", NL, "- Today:">> \o LongDate(today)
                    \o <<NL, "-", ToString(0 - d), "days ago:">> \o LongDate(target)
                    \o <<NL, "- That", "was a", Weekday(target)>>}
    ELSE {<<"Today is">> \o LongDate(today)}

\* WebSearchTool.execute: the text built from the result of
\* search_and_extract, or the text of the exception it raised when the
\* search found nothing
NoResults == <<"<no results>">>

\* Faulty variant of WebSearchTool_execute: the exception's text is returned
\* without the "Error searching web:" prefix
WebSearchTool_execute_bare(kwargs, page) ==
    IF page = NoResults
    THEN {<<"No Google search results found for query:">> \o kwargs.val}
    ELSE {<<"Found information from", "title", ":", NL, NL>> \o page}

WebSearchTool_execute(kwargs, page) ==
    IF page = NoResults
    THEN {<<"Error searching web:", "No Google search results found for query:">>
            \o kwargs.val}
    ELSE {<<"Found information from", "title", ":", NL, NL>> \o page}

RegisteredTools ==
    {<<"calculator">>, <<"datetime">>, <<"datecalculator">>, <<"web_search">>}

\* ToolRegistry.get_tool(name) is not None
IsRegistered(name) == name \in RegisteredTools

\* tool.execute(**tool_input) binds its keyword arguments: a missing required
\* argument, an unexpected one, or **None, raises TypeError
AcceptedKeys(tool) ==
    CASE tool = <<"calculator">> -> {"expression"}
      [] tool = <<"datetime">> -> {"", "format"}
      [] tool = <<"datecalculator">> -> {"", "days", "target_date"}
      [] tool = <<"web_search">> -> {"query"}
      [] OTHER -> {}

CallRaises(tool, kwargs) == kwargs.key \notin AcceptedKeys(tool)

\* The texts tool.execute(**kwargs) can return when the call binds
ToolExecute(tool, kwargs, today, page) ==
    CASE tool = <<"calculator">> -> CalculatorTool_execute(kwargs.val)
      [] tool = <<"datetime">> -> DateTimeTool_execute(kwargs, today)
      [] tool = <<"datecalculator">> -> DateCalculatorTool_execute(kwargs, today)
      [] tool = <<"web_search">> -> WebSearchTool_execute(kwargs, page)
      [] OTHER -> {}

--------------------------------------------------------------------------
(* workflow.py: termination policy *)

\* One history entry, as tool_execution_node appends it
Step(thought, tool, tool_input, observation) ==
    [thought |-> thought, tool |-> tool, tool_input |-> tool_input,
     observation |-> observation]

CompleteAnswerPattern(last_step) ==
    LET last_observation == last_step.observation
    IN  \/ Contains(last_observation, "Date calculation:")
           /\ Contains(last_observation, "will be a")
        \/ Contains(last_observation, "Date calculation:")
           /\ Contains(last_observation, "was a")
        \/ Contains(last_observation, "Days until")
        \/ Contains(last_observation, "Days since")
        \/ Contains(last_observation, "Result:") /\ last_step.tool = <<"calculator">>
        \/ Contains(last_observation, "Current date and time:")

\* Faulty variant of LoopPattern: only the tool names of the last three are compared
LoopPatternToolsOnly(steps) ==
    /\ Len(steps) >= 3
    /\ LET n == Len(steps)
           recent_tools == {steps[i].tool : i \in (n - 2)..n}
       IN  Cardinality(recent_tools) = 1

LoopPattern(steps) ==
    /\ Len(steps) >= 3
    /\ LET n == Len(steps)
           recent_tools == {steps[i].tool : i \in (n - 2)..n}
           recent_inputs == {steps[i].tool_input : i \in (n - 2)..n}
       IN  Cardinality(recent_tools) = 1 /\ Cardinality(recent_inputs) = 1

MaxStepsCap == 10

\* Faulty variant of should_force_final_answer: the cap test is > instead of >=
should_force_final_answer_gt(steps) ==
    IF steps = <<>> THEN <<FALSE, "">>
    ELSE IF CompleteAnswerPattern(steps[Len(steps)]) THEN <<TRUE, "complete_answer">>
    ELSE IF LoopPattern(steps) THEN <<TRUE, "loop_detected">>
    ELSE IF Len(steps) > MaxStepsCap THEN <<TRUE, "max_steps">>
    ELSE <<FALSE, "">>

\* Faulty variant of should_force_final_answer: the loop pattern is tested
\* before the complete-answer patterns
should_force_final_answer_loop_first(steps) ==
    IF steps = <<>> THEN <<FALSE, "">>
    ELSE IF LoopPattern(steps) THEN <<TRUE, "loop_detected">>
    ELSE IF CompleteAnswerPattern(steps[Len(steps)]) THEN <<TRUE, "complete_answer">>
    ELSE IF Len(steps) >= MaxStepsCap THEN <<TRUE, "max_steps">>
    ELSE <<FALSE, "">>

\* should_force_final_answer(steps): the pair (fire, reason)
should_force_final_answer(steps) ==
    IF steps = <<>> THEN <<FALSE, "">>
    ELSE IF CompleteAnswerPattern(steps[Len(steps)]) THEN <<TRUE, "complete_answer">>
    ELSE IF LoopPattern(steps) THEN <<TRUE, "loop_detected">>
    ELSE IF Len(steps) >= MaxStepsCap THEN <<TRUE, "max_steps">>
    ELSE <<FALSE, "">>

--------------------------------------------------------------------------
(* workflow.py: the action parser of reasoning_node *)

\* reasoning_text[input_start:input_end].strip(), the INPUT: section
RawInput(reasoning_text) ==
    LET input_start == Find(reasoning_text, "INPUT:", 1) + 1
        Marks == {Find(reasoning_text, marker, input_start) :
                     marker \in {"THOUGHT:", "FINAL ANSWER:", "TOOL:"}} \ {0}
        input_end == IF Marks = {} THEN Len(reasoning_text) + 1
                     ELSE CHOOSE e \in Marks : \A f \in Marks : e <= f
    IN  Strip(SubSeq(reasoning_text, input_start, input_end - 1))

\* "TOOL:" in text and "FINAL ANSWER:" not in text[:text.find("TOOL:")]
ToolMarkerFirst(reasoning_text) ==
    /\ Contains(reasoning_text, "TOOL:")
    /\ ~Contains(SubSeq(reasoning_text, 1, Find(reasoning_text, "TOOL:", 1) - 1),
                 "FINAL ANSWER:")

\* Faulty variant of ReasoningUpdates: the final-answer marker is looked for first
ReasoningUpdatesFinalFirst(reasoning_text, question) ==
    LET thought == extract_between(reasoning_text, "THOUGHT:", NoMarker)
        name0 == extract_between(reasoning_text, "TOOL:", NoMarker)
        name == IF name0 # <<>> /\ Contains(name0, NL) THEN FirstLine(name0) ELSE name0
        answer == extract_between(reasoning_text, "FINAL ANSWER:", NoMarker)
        reset == [thought |-> thought, tool_name |-> NoneVal,
                  tool_input |-> NoneDict, final_answer |-> NoneVal]
    IN  IF Contains(reasoning_text, "FINAL ANSWER:")
        THEN IF answer # <<>> THEN [reset EXCEPT !.final_answer = answer] ELSE reset
        ELSE IF Contains(reasoning_text, "TOOL:") /\ name # <<>>
        THEN [reset EXCEPT
                !.tool_name = name,
                !.tool_input =
                   IF Contains(reasoning_text, "INPUT:")
                   THEN parse_tool_input(name, RawInput(reasoning_text))
                   ELSE parse_tool_input_from_question(name, question)]
        ELSE reset

\* The updates reasoning_node returns for the model's response
ReasoningUpdates(reasoning_text, question) ==
    LET thought == extract_between(reasoning_text, "THOUGHT:", NoMarker)
        name0 == extract_between(reasoning_text, "TOOL:", NoMarker)
        name == IF name0 # <<>> /\ Contains(name0, NL) THEN FirstLine(name0) ELSE name0
        answer == extract_between(reasoning_text, "FINAL ANSWER:", NoMarker)
        reset == [thought |-> thought, tool_name |-> NoneVal,
                  tool_input |-> NoneDict, final_answer |-> NoneVal]
    IN  IF ToolMarkerFirst(reasoning_text)
        THEN IF name # <<>>
             THEN [reset EXCEPT
                     !.tool_name = name,
                     !.tool_input =
                        IF Contains(reasoning_text, "INPUT:")
                        THEN parse_tool_input(name, RawInput(reasoning_text))
                        ELSE parse_tool_input_from_question(name, question)]
             ELSE reset
        ELSE IF Contains(reasoning_text, "FINAL ANSWER:")
        THEN IF answer # <<>> THEN [reset EXCEPT !.final_answer = answer] ELSE reset
        ELSE reset

\* Python truthiness of an optional string
Truthy(v) == v # NoneVal /\ v # Absent /\ v # <<>>

\* Faulty variant of route_after_reasoning: a turn that set nothing is routed
\* to the tool node
route_after_reasoning_default_tool(final_answer, tool_name) ==
    IF Truthy(final_answer) THEN "provide_answer"
    ELSE "execute_tool"

route_after_reasoning(final_answer, tool_name) ==
    IF Truthy(final_answer) THEN "provide_answer"
    ELSE IF Truthy(tool_name) THEN "execute_tool"
    ELSE "provide_answer"

--------------------------------------------------------------------------
(* The run: run_qa_workflow drives the compiled graph reason -> tool ->    *)
(* reason ... -> END, one node per superstep, at most RecursionLimit       *)
(* supersteps.                                                             *)

VARIABLES
    question, thought, tool_name, tool_input, observation, final_answer,
    steps, error,       \* AgentState; Absent = the key was never written
    pc,                 \* the node to run next, "end", or "done" (returned)
    nodeExecs,          \* supersteps executed so far
    force, reason,      \* reasoning_node's force_answer, reason
    reasoning_text,     \* the model's response of the last reasoning turn
    raised,             \* str(e) of the exception workflow.invoke raised
    result,             \* the dict run_qa_workflow returned
    env, today, page,   \* environment: credentials set, clock, top web page
    repertoire,         \* the responses the model draws from in this run
    netCalls,           \* requests sent to the model or the search service
    fn,                 \* the component function being called on its own
    attempts,           \* executions of that function's body so far
    calls,              \* the outside calls it made, with their outcomes
    outcome,            \* how the call ended: Pending, Returned or Raised
    workflow,           \* create_workflow(): "compiled", or the error raised
    exit_code, stdout   \* the CLI's exit status and the answer it printed

vars == <<question, thought, tool_name, tool_input, observation, final_answer,
          steps, error, pc, nodeExecs, force, reason, reasoning_text, raised,
          result, env, today, page, repertoire, netCalls, fn, attempts, calls,
          outcome, workflow, exit_code, stdout>>

\* The state of a component call, and of the command line
Component == <<fn, attempts, calls, outcome>>
Cli == <<workflow, exit_code, stdout>>

Pending == [status |-> "pending", value |-> <<>>]
Returned(value) == [status |-> "returned", value |-> value]
Raised(msg) == [status |-> "raised", value |-> msg]

\* No component is called on its own, and the command line has not exited
ComponentIdle == fn = "" /\ attempts = 0 /\ calls = <<>> /\ outcome = Pending
CliRunning == workflow = "compiled" /\ exit_code = -1 /\ stdout = <<>>

RecursionLimit == 25

Credentials == {"ANTHROPIC_API_KEY", "GOOGLE_API_KEY", "GOOGLE_SEARCH_ENGINE_ID"}

\* Faulty variant of ConstructionError: the search tool is built only when used
ConstructionErrorLazySearch(e) ==
    IF "ANTHROPIC_API_KEY" \notin e
    THEN <<"ANTHROPIC_API_KEY not found in environment variables or provided">>
    ELSE <<>>

\* ClaudeClient() then ToolRegistry() (which builds GoogleSearchTool()): the
\* message of the ValueError the first missing credential raises, <<>> if none
ConstructionError(e) ==
    IF "ANTHROPIC_API_KEY" \notin e
    THEN <<"ANTHROPIC_API_KEY not found in environment variables or provided">>
    ELSE IF "GOOGLE_API_KEY" \notin e
    THEN <<"Google API key is required. Set GOOGLE_API_KEY environment variable.">>
    ELSE IF "GOOGLE_SEARCH_ENGINE_ID" \notin e
    THEN <<"Google Search Engine ID is required. Set GOOGLE_SEARCH_ENGINE_ID environment variable.">>
    ELSE <<>>

\* Messages of the exceptions the model call can raise
ModelErrors == {<<"Connection error.">>}

\* str(GraphRecursionError) of the graph library
RecursionErrorText ==
    <<"Recursion limit", "of", "25", "reached without hitting a stop condition.">>

ApologeticAnswer ==
    <<"I apologize, but I wasn't able to complete the request as it required too many steps.",
      "Please try rephrasing your question or being more specific.">>

DefaultAnswer == <<"Unable to generate an answer">>

NoResult == [question |-> Absent, answer |-> Absent, steps |-> <<>>, error |-> Absent]

\* result.get(key, default) / result.get(key)
Get(value, default) == IF value = Absent THEN default ELSE value

\* Faulty variant of ExceptResult: the handler looks for "recursion_limit"
ExceptResultWrongMarker(q, history, msg) ==
    [question |-> q,
     answer |-> IF Contains(Lower(msg), "recursion_limit")
                THEN ApologeticAnswer
                ELSE <<"I encountered an error while processing your request:">> \o msg,
     steps |-> history,
     error |-> msg]

\* Faulty variant of ExceptResult: the error field is left unset
ExceptResultNoError(q, history, msg) ==
    [question |-> q,
     answer |-> IF Contains(Lower(msg), "recursion limit")
                THEN ApologeticAnswer
                ELSE <<"I encountered an error while processing your request:">> \o msg,
     steps |-> history,
     error |-> NoneVal]

\* run_qa_workflow's except branch and return: initial_state.copy() shares
\* the steps list the nodes appended to
ExceptResult(q, history, msg) ==
    [question |-> q,
     answer |-> IF Contains(Lower(msg), "recursion limit")
                THEN ApologeticAnswer
                ELSE <<"I encountered an error while processing your request:">> \o msg,
     steps |-> history,
     error |-> msg]

\* Faulty variant of ReturnResult: the answer is read from a key the nodes
\* never write
ReturnResultWrongKey(q, fa, history, err) ==
    [question |-> q,
     answer |-> DefaultAnswer,
     steps |-> history,
     error |-> Get(err, NoneVal)]

\* Faulty variant of ReturnResult: the question is read from the final state
\* under a key the state does not have
ReturnResultNoQuestion(q, fa, history, err) ==
    [question |-> NoneVal,
     answer |-> Get(fa, DefaultAnswer),
     steps |-> history,
     error |-> Get(err, NoneVal)]

\* run_qa_workflow's return after workflow.invoke returned the final state
ReturnResult(q, fa, history, err) ==
    [question |-> q,
     answer |-> Get(fa, DefaultAnswer),
     steps |-> history,
     error |-> Get(err, NoneVal)]

--------------------------------------------------------------------------
(* The model's responses and the runs explored *)

ToolCall(tool, input) == <<"THOUGHT:", "t", NL, "TOOL:", tool, NL, "INPUT:">> \o input
ToolCallNoInput(tool) == <<"THOUGHT:", "t", NL, "TOOL:", tool>>
FinalAnswer == <<"THOUGHT:", "t", NL, "FINAL ANSWER:", "ans">>

\* A scenario bounds one run: the question, the responses the model may
\* give at any turn, the possible clocks and the possible states of the web
\* (the text of the top page, or NoResults), both fixed for the run
Scenarios ==
    { [question |-> <<"What is", "15 * 23 + 47", "?">>,
       responses |-> { ToolCall("calculator", <<"15 * 23 + 47">>),
                       ToolCall("calculator", <<"1/0">>),
                       FinalAnswer, <<"t">> },
       todays |-> {0}, pages |-> {<<"content">>}],
      [question |-> <<"What is", "15 * 23 + 47", "?">>,
       responses |-> { ToolCall("bogus", <<"x">>),
                       ToolCallNoInput("calculator"),
                       ToolCall("calculator", <<"'", "2 + 2", "'">>),
                       FinalAnswer },
       todays |-> {0}, pages |-> {<<"content">>}],
      [question |-> <<"What is", "15 * 23 + 47", "?">>,
       responses |-> { <<"TOOL:", "calculator", NL, "INPUT:", "1/0", NL,
                         "FINAL ANSWER:", "ans">>,
                       <<"FINAL ANSWER:", "ans", NL, "TOOL:", "calculator">>,
                       <<"THOUGHT:", "t", NL, "FINAL ANSWER:", NL>>,
                       <<"THOUGHT:", "t", NL, "TOOL:", NL>>,
                       <<>> },
       todays |-> {0}, pages |-> {<<"content">>}],
      [question |-> <<"Who won the", "2024", "Super Bowl?">>,
       responses |-> { ToolCall("web_search", <<"q">>),
                       ToolCallNoInput("web_search"),
                       FinalAnswer },
       todays |-> {0},
       pages |-> {<<"content">>, <<"Days until", "kickoff">>, NoResults}],
      [question |-> <<"What day will it be in", "10", "days?">>,
       responses |-> { ToolCallNoInput("datecalculator"), FinalAnswer },
       todays |-> 0..MaxToday, pages |-> {<<"content">>}],
      [question |-> <<"How many days", "until", "Christmas?">>,
       responses |-> { ToolCall("datecalculator", <<"date", "1">>), FinalAnswer },
       todays |-> 0..MaxToday, pages |-> {<<"content">>}],
      [question |-> <<"What day of the week is today?">>,
       responses |-> { ToolCallNoInput("datetime"), FinalAnswer, <<"t">> },
       todays |-> {0}, pages |-> {<<"content">>}],
      [question |-> <<"What day of the week is today?">>,
       responses |-> { ToolCall("datetime", <<"%A">>), FinalAnswer },
       todays |-> {0}, pages |-> {<<"content">>}] }

\* The state in which run_qa_workflow(question) is called, pc telling where
\* the run stands
StartOfRun(at) ==
    /\ \E sc \in Scenarios :
          /\ question = sc.question
          /\ repertoire = sc.responses
          /\ today \in sc.todays
          /\ page \in sc.pages
    /\ env \in SUBSET Credentials
    /\ thought = Absent /\ tool_name = Absent /\ tool_input = NoneDict
    /\ observation = Absent /\ final_answer = Absent /\ error = Absent
    /\ steps = <<>>
    /\ pc = at /\ nodeExecs = 0
    /\ force = FALSE /\ reason = "" /\ reasoning_text = <<>>
    /\ raised = Absent /\ result = NoResult
    /\ netCalls = 0 /\ ComponentIdle

\* The graph is compiled and its first node, reason, is about to run
Init == StartOfRun("reason") /\ CliRunning

Environment == <<env, today, page, repertoire, question>>
Selection == <<thought, tool_name, tool_input, final_answer, reasoning_text>>
Verdict == <<force, reason>>

\* Faulty variant of reasoning_node: the updates carry only the keys the parser set,
\* so an earlier turn's tool selection stays in the state
reasoning_node_keeps_selection ==
    /\ pc = "reason" /\ nodeExecs < RecursionLimit
    /\ ConstructionError(env) = <<>>
    /\ LET verdict == IF steps # <<>> THEN should_force_final_answer(steps)
                      ELSE <<FALSE, "">>
       IN  force' = verdict[1] /\ reason' = verdict[2]
    /\ \E text \in repertoire :
          LET updates == ReasoningUpdates(text, question)
              kept == IF updates.tool_name = NoneVal /\ tool_name # Absent
                      THEN tool_name ELSE updates.tool_name
          IN  /\ reasoning_text' = text
              /\ thought' = updates.thought
              /\ tool_name' = kept
              /\ tool_input' = updates.tool_input
              /\ final_answer' = updates.final_answer
              /\ pc' = IF route_after_reasoning(updates.final_answer, kept)
                          = "execute_tool"
                       THEN "tool" ELSE "end"
    /\ nodeExecs' = nodeExecs + 1
    /\ netCalls' = netCalls + 1
    /\ UNCHANGED <<observation, steps, error, raised, result, Environment,
                   Component, Cli>>

\* Faulty variant of reasoning_node: a verdict that fired is kept for the
\* later turns instead of being evaluated again
reasoning_node_sticky_verdict ==
    /\ pc = "reason" /\ nodeExecs < RecursionLimit
    /\ ConstructionError(env) = <<>>
    /\ LET verdict == IF force THEN <<force, reason>>
                      ELSE IF steps # <<>> THEN should_force_final_answer(steps)
                      ELSE <<FALSE, "">>
       IN  force' = verdict[1] /\ reason' = verdict[2]
    /\ \E text \in repertoire :
          LET updates == ReasoningUpdates(text, question)
          IN  /\ reasoning_text' = text
              /\ thought' = updates.thought
              /\ tool_name' = updates.tool_name
              /\ tool_input' = updates.tool_input
              /\ final_answer' = updates.final_answer
              /\ pc' = IF route_after_reasoning(updates.final_answer, updates.tool_name)
                          = "execute_tool"
                       THEN "tool" ELSE "end"
    /\ nodeExecs' = nodeExecs + 1
    /\ netCalls' = netCalls + 1
    /\ UNCHANGED <<observation, steps, error, raised, result, Environment,
                   Component, Cli>>

\* Faulty variant of reasoning_node: the updates also reset the error field
reasoning_node_clears_error ==
    /\ pc = "reason" /\ nodeExecs < RecursionLimit
    /\ ConstructionError(env) = <<>>
    /\ LET verdict == IF steps # <<>> THEN should_force_final_answer(steps)
                      ELSE <<FALSE, "">>
       IN  force' = verdict[1] /\ reason' = verdict[2]
    /\ \E text \in repertoire :
          LET updates == ReasoningUpdates(text, question)
          IN  /\ reasoning_text' = text
              /\ thought' = updates.thought
              /\ tool_name' = updates.tool_name
              /\ tool_input' = updates.tool_input
              /\ final_answer' = updates.final_answer
              /\ pc' = IF route_after_reasoning(updates.final_answer, updates.tool_name)
                          = "execute_tool"
                       THEN "tool" ELSE "end"
    /\ nodeExecs' = nodeExecs + 1
    /\ netCalls' = netCalls + 1
    /\ error' = NoneVal
    /\ UNCHANGED <<observation, steps, raised, result, Environment,
                   Component, Cli>>

\* reasoning_node, the model call returning reasoning_text, then the routing
reasoning_node ==
    /\ pc = "reason" /\ nodeExecs < RecursionLimit
    /\ ConstructionError(env) = <<>>
    /\ LET verdict == IF steps # <<>> THEN should_force_final_answer(steps)
                      ELSE <<FALSE, "">>
       IN  force' = verdict[1] /\ reason' = verdict[2]
    /\ \E text \in repertoire :
          LET updates == ReasoningUpdates(text, question)
          IN  /\ reasoning_text' = text
              /\ thought' = updates.thought
              /\ tool_name' = updates.tool_name
              /\ tool_input' = updates.tool_input
              /\ final_answer' = updates.final_answer
              /\ pc' = IF route_after_reasoning(updates.final_answer, updates.tool_name)
                          = "execute_tool"
                       THEN "tool" ELSE "end"
    /\ nodeExecs' = nodeExecs + 1
    /\ netCalls' = netCalls + 1
    /\ UNCHANGED <<observation, steps, error, raised, result, Environment,
                   Component, Cli>>

\* reasoning_node raising (a missing credential at construction, or the model
\* call failing): workflow.invoke raises and run_qa_workflow's except returns
ReasoningRaises ==
    /\ pc = "reason" /\ nodeExecs < RecursionLimit
    /\ IF ConstructionError(env) # <<>>
       THEN /\ raised' = ConstructionError(env)
            /\ UNCHANGED netCalls
       ELSE /\ raised' \in ModelErrors
            /\ netCalls' = netCalls + 1
    /\ result' = ExceptResult(question, steps, raised')
    /\ pc' = "done"
    /\ nodeExecs' = nodeExecs + 1
    /\ UNCHANGED <<observation, steps, error, Selection, Verdict, Environment,
                   Component, Cli>>

\* Faulty variant of tool_execution_node: the history is replaced by the
\* new entry
tool_execution_node_replaces ==
    /\ pc = "tool" /\ nodeExecs < RecursionLimit
    /\ IF ~Truthy(tool_name)
       THEN /\ error' = <<"No tool selected">>
            /\ UNCHANGED <<observation, steps>>
       ELSE IF ~IsRegistered(tool_name)
       THEN /\ error' = <<"Tool", "'">> \o tool_name \o <<"'", "not found">>
            /\ UNCHANGED <<observation, steps>>
       ELSE IF CallRaises(tool_name, tool_input)
       THEN /\ error' = <<"Tool execution error:", "execute() missing argument">>
            /\ UNCHANGED <<observation, steps>>
       ELSE \E text \in ToolExecute(tool_name, tool_input, today, page) :
               /\ observation' = text
               /\ steps' = Append(<<>>, Step(Get(thought, <<>>), tool_name,
                                              StrDict(tool_input), text))
               /\ UNCHANGED error
    /\ netCalls' = IF tool_name = <<"web_search">>
                        /\ ~CallRaises(tool_name, tool_input)
                    THEN netCalls + 1 ELSE netCalls
    /\ pc' = "reason"
    /\ nodeExecs' = nodeExecs + 1
    /\ UNCHANGED <<Selection, Verdict, raised, result, Environment, Component,
                   Cli>>

\* Faulty variant of tool_execution_node: a failed lookup is recorded in the
\* history with the error as its observation
tool_execution_node_records_failure ==
    /\ pc = "tool" /\ nodeExecs < RecursionLimit
    /\ IF ~Truthy(tool_name)
       THEN /\ error' = <<"No tool selected">>
            /\ UNCHANGED <<observation, steps>>
       ELSE IF ~IsRegistered(tool_name)
       THEN /\ error' = <<"Tool", "'">> \o tool_name \o <<"'", "not found">>
            /\ observation' = error'
            /\ steps' = Append(steps, Step(Get(thought, <<>>), tool_name,
                                           StrDict(tool_input), error'))
       ELSE IF CallRaises(tool_name, tool_input)
       THEN /\ error' = <<"Tool execution error:", "execute() missing argument">>
            /\ UNCHANGED <<observation, steps>>
       ELSE \E text \in ToolExecute(tool_name, tool_input, today, page) :
               /\ observation' = text
               /\ steps' = Append(steps, Step(Get(thought, <<>>), tool_name,
                                              StrDict(tool_input), text))
               /\ UNCHANGED error
    /\ netCalls' = IF tool_name = <<"web_search">>
                        /\ ~CallRaises(tool_name, tool_input)
                    THEN netCalls + 1 ELSE netCalls
    /\ pc' = "reason"
    /\ nodeExecs' = nodeExecs + 1
    /\ UNCHANGED <<Selection, Verdict, raised, result, Environment, Component,
                   Cli>>

\* Faulty variant of tool_execution_node: the tool turn is not counted
\* against the recursion limit
tool_execution_node_uncounted ==
    /\ pc = "tool" /\ nodeExecs < RecursionLimit
    /\ IF ~Truthy(tool_name)
       THEN /\ error' = <<"No tool selected">>
            /\ UNCHANGED <<observation, steps>>
       ELSE IF ~IsRegistered(tool_name)
       THEN /\ error' = <<"Tool", "'">> \o tool_name \o <<"'", "not found">>
            /\ UNCHANGED <<observation, steps>>
       ELSE IF CallRaises(tool_name, tool_input)
       THEN /\ error' = <<"Tool execution error:", "execute() missing argument">>
            /\ UNCHANGED <<observation, steps>>
       ELSE \E text \in ToolExecute(tool_name, tool_input, today, page) :
               /\ observation' = text
               /\ steps' = Append(steps, Step(Get(thought, <<>>), tool_name,
                                              StrDict(tool_input), text))
               /\ UNCHANGED error
    /\ netCalls' = IF tool_name = <<"web_search">>
                        /\ ~CallRaises(tool_name, tool_input)
                    THEN netCalls + 1 ELSE netCalls
    /\ pc' = "reason"
    /\ nodeExecs' = nodeExecs
    /\ UNCHANGED <<Selection, Verdict, raised, result, Environment, Component,
                   Cli>>

\* tool_execution_node, then the edge back to reason
tool_execution_node ==
    /\ pc = "tool" /\ nodeExecs < RecursionLimit
    /\ IF ~Truthy(tool_name)
       THEN /\ error' = <<"No tool selected">>
            /\ UNCHANGED <<observation, steps>>
       ELSE IF ~IsRegistered(tool_name)
       THEN /\ error' = <<"Tool", "'">> \o tool_name \o <<"'", "not found">>
            /\ UNCHANGED <<observation, steps>>
       ELSE IF CallRaises(tool_name, tool_input)
       THEN /\ error' = <<"Tool execution error:", "execute() missing argument">>
            /\ UNCHANGED <<observation, steps>>
       ELSE \E text \in ToolExecute(tool_name, tool_input, today, page) :
               /\ observation' = text
               /\ steps' = Append(steps, Step(Get(thought, <<>>), tool_name,
                                              StrDict(tool_input), text))
               /\ UNCHANGED error
    /\ netCalls' = IF tool_name = <<"web_search">>
                        /\ ~CallRaises(tool_name, tool_input)
                    THEN netCalls + 1 ELSE netCalls
    /\ pc' = "reason"
    /\ nodeExecs' = nodeExecs + 1
    /\ UNCHANGED <<Selection, Verdict, raised, result, Environment, Component,
                   Cli>>

\* The graph needs another superstep after RecursionLimit of them: invoke
\* raises GraphRecursionError and run_qa_workflow's except returns
RecursionLimitReached ==
    /\ pc \in {"reason", "tool"} /\ nodeExecs >= RecursionLimit
    /\ raised' = RecursionErrorText
    /\ result' = ExceptResult(question, steps, RecursionErrorText)
    /\ pc' = "done"
    /\ UNCHANGED <<observation, steps, error, nodeExecs, Selection, Verdict,
                   Environment, netCalls, Component, Cli>>

\* The graph reached END: workflow.invoke returns the state, run_qa_workflow
\* returns
Return ==
    /\ pc = "end"
    /\ result' = ReturnResult(question, final_answer, steps, error)
    /\ pc' = "done"
    /\ UNCHANGED <<observation, steps, error, nodeExecs, raised, Selection, Verdict,
                   Environment, netCalls, Component, Cli>>

Next ==
    \/ reasoning_node
    \/ ReasoningRaises
    \/ tool_execution_node
    \/ RecursionLimitReached
    \/ Return

Spec == Init /\ [][Next]_vars

\* The single-threaded run executes its next step whenever there is one
FairSpec == Spec /\ WF_vars(Next)

--------------------------------------------------------------------------
(* wiki.py: main() calls run_qa_workflow(args.question), prints and exits *)

\* create_workflow() is the one call run_qa_workflow makes into the graph
\* library outside its try block: the graph compiles, or the call raises
WorkflowOutcomes == {"compiled", "StateGraph error"}

CliInit ==
    /\ StartOfRun("start")
    /\ workflow \in WorkflowOutcomes
    /\ exit_code = -1 /\ stdout = <<>>

\* run_qa_workflow up to workflow.invoke: create_workflow() returns the
\* compiled graph, or its exception leaves run_qa_workflow
create_workflow ==
    /\ pc = "start"
    /\ pc' = IF workflow = "compiled" THEN "reason" ELSE "escaped"
    /\ UNCHANGED <<thought, tool_name, tool_input, observation, final_answer, steps,
                   error, nodeExecs, force, reason, reasoning_text, raised, result,
                   Environment, netCalls, Component, Cli>>

\* str(value) as print writes it
PyStr(value) == IF value = NoneVal THEN <<"None">> ELSE value

\* Faulty variant of main_returns: a result carrying an error exits with 1
main_returns_strict ==
    /\ pc = "done"
    /\ stdout' = <<"Answer:">> \o PyStr(result.answer)
                   \o (IF Truthy(result.error) THEN <<"Note:">> \o result.error
                       ELSE <<>>)
    /\ exit_code' = IF Truthy(result.error) THEN 1 ELSE 0
    /\ pc' = "exited"
    /\ UNCHANGED <<thought, tool_name, tool_input, observation, final_answer, steps,
                   error, nodeExecs, force, reason, reasoning_text, raised, result,
                   Environment, netCalls, Component, workflow>>

\* main after run_qa_workflow returned: the answer and, if the result has
\* an error, a note are printed; the process ends with status 0
main_returns ==
    /\ pc = "done"
    /\ stdout' = <<"Answer:">> \o PyStr(result.answer)
                   \o (IF Truthy(result.error) THEN <<"Note:">> \o result.error
                       ELSE <<>>)
    /\ exit_code' = 0
    /\ pc' = "exited"
    /\ UNCHANGED <<thought, tool_name, tool_input, observation, final_answer, steps,
                   error, nodeExecs, force, reason, reasoning_text, raised, result,
                   Environment, netCalls, Component, workflow>>

\* main's except branch: the exception that left run_qa_workflow is printed
\* and sys.exit(1) is called
main_except ==
    /\ pc = "escaped"
    /\ stdout' = <<"Error:", workflow>>
    /\ exit_code' = 1
    /\ pc' = "exited"
    /\ UNCHANGED <<thought, tool_name, tool_input, observation, final_answer, steps,
                   error, nodeExecs, force, reason, reasoning_text, raised, result,
                   Environment, netCalls, Component, workflow>>

CliNext == create_workflow \/ Next \/ main_returns \/ main_except

CliSpec == CliInit /\ [][CliNext]_vars

--------------------------------------------------------------------------
(* The action parser alone: reasoning_node's parse of every response text *)
(* of at most MaxTextLen tokens over ParserAlphabet                       *)

MaxTextLen == 4

ParserAlphabet ==
    {"THOUGHT:", "TOOL:", "INPUT:", "FINAL ANSWER:", NL, "calculator", "ans"}

ParserTexts == UNION {[1..n -> ParserAlphabet] : n \in 0..MaxTextLen}

ParserInit ==
    /\ question = <<"What is", "15 * 23 + 47", "?">>
    /\ repertoire = {} /\ today = 0 /\ page = <<"content">> /\ env = Credentials
    /\ thought = Absent /\ tool_name = Absent /\ tool_input = NoneDict
    /\ observation = Absent /\ final_answer = Absent /\ error = Absent
    /\ steps = <<>>
    /\ pc = "parse" /\ nodeExecs = 0
    /\ force = FALSE /\ reason = "" /\ reasoning_text = <<>>
    /\ raised = Absent /\ result = NoResult
    /\ netCalls = 0 /\ ComponentIdle /\ CliRunning

ParseResponse ==
    /\ pc = "parse"
    /\ \E text \in ParserTexts :
          LET updates == ReasoningUpdates(text, question)
          IN  /\ reasoning_text' = text
              /\ thought' = updates.thought
              /\ tool_name' = updates.tool_name
              /\ tool_input' = updates.tool_input
              /\ final_answer' = updates.final_answer
    /\ pc' = "parsed"
    /\ UNCHANGED <<observation, steps, error, nodeExecs, raised, result, Verdict,
                   Environment, netCalls, Component, Cli>>

ParserSpec == ParserInit /\ [][ParseResponse]_vars

--------------------------------------------------------------------------
(* The termination policy alone: should_force_final_answer on every       *)
(* history of at most MaxHistory entries that tool turns can append       *)

MaxHistory == 10

\* (tool, tool_input) of the entries: two inputs of one tool, and two tools
\* with one input
PolicyCalls ==
    { <<<<"datecalculator">>, DaysDict(0)>>,
      <<<<"datecalculator">>, EmptyDict>>,
      <<<<"datetime">>, EmptyDict>> }

PolicyEntries ==
    UNION { {Step(<<"t">>, c[1], StrDict(c[2]), text) :
                text \in ToolExecute(c[1], c[2], 0, <<"content">>)} : c \in PolicyCalls }

PolicyInit ==
    /\ question = <<"What day of the week is today?">>
    /\ repertoire = {} /\ today = 0 /\ page = <<"content">> /\ env = Credentials
    /\ thought = Absent /\ tool_name = Absent /\ tool_input = NoneDict
    /\ observation = Absent /\ final_answer = Absent /\ error = Absent
    /\ steps = <<>>
    /\ pc = "policy" /\ nodeExecs = 0
    /\ force = FALSE /\ reason = "" /\ reasoning_text = <<>>
    /\ raised = Absent /\ result = NoResult
    /\ netCalls = 0 /\ ComponentIdle /\ CliRunning

\* One more entry in the history, and the policy's verdict on it
PolicyStep ==
    /\ pc = "policy" /\ Len(steps) < MaxHistory
    /\ \E entry \in PolicyEntries :
          /\ steps' = Append(steps, entry)
          /\ force' = should_force_final_answer(steps')[1]
          /\ reason' = should_force_final_answer(steps')[2]
    /\ UNCHANGED <<observation, error, pc, nodeExecs, raised, result, Selection,
                   Environment, netCalls, Component, Cli>>

PolicySpec == PolicyInit /\ [][PolicyStep]_vars

--------------------------------------------------------------------------
(* claude_client.py: the two request methods of ClaudeClient, each called *)
(* on its own. One step is one execution of the method's body, which      *)
(* sends one messages.create request.                                     *)

\* stop_after_attempt(3) of the @retry decorators
StopAfterAttempt == 3

\* The methods defined under @retry(stop=stop_after_attempt(3), reraise=True)
Retried == {"generate_answer", "search_and_extract"}

\* Faulty variant of AfterFailure: one more execution is allowed
AfterFailureOneMore(f, n, msg) ==
    IF f \in Retried /\ n <= StopAfterAttempt THEN Pending ELSE Raised(msg)

\* tenacity, after an execution of the body raised msg: the call is made
\* again while fewer than StopAfterAttempt executions were made, then the
\* last exception is re-raised; an undecorated method raises at once
AfterFailure(f, n, msg) ==
    IF f \in Retried /\ n < StopAfterAttempt THEN Pending ELSE Raised(msg)

\* What client.messages.create can do: return a response whose content is
\* a list of blocks (possibly empty), or raise
ApiErrors == {<<"Connection error.">>, <<"authentication_error">>, <<"overloaded_error">>}

ApiOutcomes ==
    {[to |-> "messages.create", ok |-> TRUE, value |-> c] :
        c \in {<<>>, <<"THOUGHT:", "t", NL, "FINAL ANSWER:", "ans">>}}
    \cup {[to |-> "messages.create", ok |-> FALSE, value |-> e] : e \in ApiErrors}

ClientQuestions == {<<"What is", "15 * 23 + 47", "?">>, <<"What day of the week is today?">>}

ClientInit ==
    /\ fn \in {"generate_reasoning", "generate_answer"}
    /\ question \in ClientQuestions
    /\ attempts = 0 /\ calls = <<>> /\ outcome = Pending
    /\ repertoire = {} /\ today = 0 /\ page = <<"content">> /\ env = Credentials
    /\ thought = Absent /\ tool_name = Absent /\ tool_input = NoneDict
    /\ observation = Absent /\ final_answer = Absent /\ error = Absent
    /\ steps = <<>>
    /\ pc = "client" /\ nodeExecs = 0
    /\ force = FALSE /\ reason = "" /\ reasoning_text = <<>>
    /\ raised = Absent /\ result = NoResult
    /\ netCalls = 0 /\ CliRunning

Loop == <<thought, tool_name, tool_input, observation, final_answer, steps, error,
          pc, nodeExecs, force, reason, reasoning_text, raised, result>>

\* ClaudeClient.generate_reasoning: no decorator; the request's text is
\* returned ("" for an empty content list), its exception re-raised
generate_reasoning ==
    /\ fn = "generate_reasoning" /\ outcome = Pending
    /\ \E r \in ApiOutcomes :
          /\ calls' = Append(calls, r)
          /\ attempts' = attempts + 1
          /\ outcome' = IF r.ok THEN Returned(r.value)
                        ELSE AfterFailure(fn, attempts', r.value)
    /\ netCalls' = netCalls + 1
    /\ UNCHANGED <<fn, Loop, Environment, Cli>>

\* ClaudeClient.generate_answer, one execution of its body under the retry
\* decorator: the answer is the response's text, or "No response generated"
generate_answer ==
    /\ fn = "generate_answer" /\ outcome = Pending
    /\ \E r \in ApiOutcomes :
          /\ calls' = Append(calls, r)
          /\ attempts' = attempts + 1
          /\ outcome' = IF r.ok
                        THEN Returned(IF r.value # <<>> THEN r.value
                                      ELSE <<"No response generated">>)
                        ELSE AfterFailure(fn, attempts', r.value)
    /\ netCalls' = netCalls + 1
    /\ UNCHANGED <<fn, Loop, Environment, Cli>>

ClientNext == generate_reasoning \/ generate_answer

ClientSpec == ClientInit /\ [][ClientNext]_vars

--------------------------------------------------------------------------
(* google_search.py: GoogleSearchTool.search_and_extract called on its    *)
(* own. One step is one execution of its body under the retry decorator:  *)
(* the search request, then, if it has a top result, the page fetch.      *)

\* The search API's items: each a dict whose keys may be missing
TopResults ==
    { [title |-> <<"title">>, link |-> <<"https://a">>, snippet |-> <<"snippet">>],
      [title |-> <<"title">>, link |-> <<"https://a">>, snippet |-> Absent],
      [title |-> Absent, link |-> Absent, snippet |-> <<"snippet">>] }

\* requests.get(base_url) with raise_for_status(): an exception, or the
\* JSON data with its items (none, or the top result)
SearchOutcomes ==
    {[to |-> "search", ok |-> FALSE, value |-> e, items |-> <<>>] :
        e \in {<<"429 Client Error">>, <<"Connection aborted.">>}}
    \cup {[to |-> "search", ok |-> TRUE, value |-> <<>>, items |-> <<>>]}
    \cup {[to |-> "search", ok |-> TRUE, value |-> <<>>, items |-> <<t>>] :
            t \in TopResults}

\* _extract_content(url, max_length): the cleaned text of the page, or an
\* exception; fetching the empty url of a result without link raises
PageOutcomes(url) ==
    {[to |-> "page", ok |-> FALSE, value |-> e, items |-> <<>>] :
        e \in {<<"404 Client Error">>}
               \cup (IF url = <<>> THEN {<<"Invalid URL ''">>} ELSE {})}
    \cup (IF url = <<>> THEN {}
          ELSE {[to |-> "page", ok |-> TRUE, value |-> c, items |-> <<>>] :
                    c \in {<<"content">>, <<>>}})

\* Faulty variant of ExtractedContent: no fallback to the snippet
ExtractedContentNoFallback(p, top_result) ==
    IF p.ok THEN p.value ELSE <<>>

\* The content of the result: the page's text, or top_result.get('snippet',
\* 'Content extraction failed') when the extraction raised
ExtractedContent(p, top_result) ==
    IF p.ok THEN p.value
    ELSE Get(top_result.snippet, <<"Content extraction failed">>)

NoResultsMessage(query) == <<"No Google search results found for query:">> \o query

SearchInit ==
    /\ fn = "search_and_extract"
    /\ tool_name = <<"web_search">>
    /\ tool_input \in {Dict("query", <<"q">>), Dict("query", <<>>)}
    /\ attempts = 0 /\ calls = <<>> /\ outcome = Pending
    /\ question = <<"Who won the", "2024", "Super Bowl?">>
    /\ repertoire = {} /\ today = 0 /\ page = <<"content">> /\ env = Credentials
    /\ thought = Absent
    /\ observation = Absent /\ final_answer = Absent /\ error = Absent
    /\ steps = <<>>
    /\ pc = "search" /\ nodeExecs = 0
    /\ force = FALSE /\ reason = "" /\ reasoning_text = <<>>
    /\ raised = Absent /\ result = NoResult
    /\ netCalls = 0 /\ CliRunning

search_and_extract ==
    /\ fn = "search_and_extract" /\ outcome.status = "pending"
    /\ attempts' = attempts + 1
    /\ \E s \in SearchOutcomes :
          IF ~s.ok
          THEN /\ calls' = Append(calls, s)
               /\ outcome' = AfterFailure(fn, attempts', s.value)
          ELSE IF s.items = <<>>
          THEN /\ calls' = Append(calls, s)
               /\ outcome' = AfterFailure(fn, attempts', NoResultsMessage(tool_input.val))
          ELSE LET top_result == s.items[1]
                   title == Get(top_result.title, <<>>)
                   url == Get(top_result.link, <<>>)
               IN  \E p \in PageOutcomes(url) :
                      /\ calls' = calls \o <<s, p>>
                      /\ outcome' = Returned([title |-> title, url |-> url,
                                              content |-> ExtractedContent(p, top_result)])
    /\ netCalls' = netCalls + 1
    /\ UNCHANGED <<fn, Loop, Environment, Cli>>

SearchSpec == SearchInit /\ [][search_and_extract]_vars

--------------------------------------------------------------------------
(* tools.py: CalculatorTool.execute called on its own with every          *)
(* expression of at most MaxExprLen tokens over ExprAlphabet              *)

MaxExprLen == 3

ExprAlphabet == {"2 + 2", "1/0", "os", "import", "IMPORT", "Eval", "EXEC", "__"}

Expressions == UNION {[1..n -> ExprAlphabet] : n \in 0..MaxExprLen}

CalculatorInit ==
    /\ fn = "CalculatorTool.execute"
    /\ attempts = 0 /\ calls = <<>> /\ outcome = Pending
    /\ tool_name = <<"calculator">> /\ tool_input = NoneDict
    /\ question = <<"What is", "15 * 23 + 47", "?">>
    /\ repertoire = {} /\ today = 0 /\ page = <<"content">> /\ env = Credentials
    /\ thought = Absent
    /\ observation = Absent /\ final_answer = Absent /\ error = Absent
    /\ steps = <<>>
    /\ pc = "calculator" /\ nodeExecs = 0
    /\ force = FALSE /\ reason = "" /\ reasoning_text = <<>>
    /\ raised = Absent /\ result = NoResult
    /\ netCalls = 0 /\ CliRunning

\* execute(expression): the text returned, and the eval call if one is made
CalculatorCall ==
    /\ fn = "CalculatorTool.execute" /\ outcome.status = "pending"
    /\ \E expression \in Expressions :
          /\ tool_input' = Dict("expression", expression)
          /\ calls' = IF Rejected(expression) THEN calls
                      ELSE Append(calls, [to |-> "eval", ok |-> PyEval(expression).ok,
                                          value |-> expression])
          /\ \E text \in CalculatorTool_execute(expression) :
                /\ observation' = text
                /\ outcome' = Returned(text)
    /\ attempts' = attempts + 1
    /\ UNCHANGED <<fn, thought, tool_name, final_answer, steps, error, pc, nodeExecs,
                   force, reason, reasoning_text, raised, result, Environment,
                   netCalls, Cli>>

CalculatorSpec == CalculatorInit /\ [][CalculatorCall]_vars

--------------------------------------------------------------------------
(* tools.py: DateCalculatorTool.execute called on its own, on every day   *)
(* 0..MaxNumeral, with every day offset and every target date text of the *)
(* model                                                                  *)

DateKwargs ==
    {DaysDict(d) : d \in (0 - MaxNumeral)..MaxNumeral}
    \cup {Dict("target_date", t) :
            t \in DateTexts \cup AwareDateTexts \cup {<<"Christmas">>}}
    \cup {EmptyDict}

DateCalculatorInit ==
    /\ fn = "DateCalculatorTool.execute"
    /\ today \in 0..MaxNumeral
    /\ attempts = 0 /\ calls = <<>> /\ outcome = Pending
    /\ tool_name = <<"datecalculator">> /\ tool_input = NoneDict
    /\ question = <<"How many days", "until", "Christmas?">>
    /\ repertoire = {} /\ page = <<"content">> /\ env = Credentials
    /\ thought = Absent
    /\ observation = Absent /\ final_answer = Absent /\ error = Absent
    /\ steps = <<>>
    /\ pc = "datecalculator" /\ nodeExecs = 0
    /\ force = FALSE /\ reason = "" /\ reasoning_text = <<>>
    /\ raised = Absent /\ result = NoResult
    /\ netCalls = 0 /\ CliRunning

\* execute(**kwargs) with today the clock's date at midnight
DateCalculatorCall ==
    /\ fn = "DateCalculatorTool.execute" /\ outcome.status = "pending"
    /\ \E kwargs \in DateKwargs :
          /\ tool_input' = kwargs
          /\ \E text \in DateCalculatorTool_execute(kwargs, today) :
                /\ observation' = text
                /\ outcome' = Returned(text)
    /\ attempts' = attempts + 1
    /\ UNCHANGED <<fn, calls, thought, tool_name, final_answer, steps, error, pc,
                   nodeExecs, force, reason, reasoning_text, raised, result,
                   Environment, netCalls, Cli>>

DateCalculatorSpec == DateCalculatorInit /\ [][DateCalculatorCall]_vars

--------------------------------------------------------------------------
(* Claims *)

IsSet(v) == v # NoneVal /\ v # Absent

\* A "TOOL:" marker with no "FINAL ANSWER:" marker before it
ToolBeforeFinal(text) ==
    \E i \in 1..Len(text) :
        /\ text[i] = "TOOL:"
        /\ \A j \in 1..(i - 1) : text[j] # "FINAL ANSWER:"

\* Some text other than whitespace follows the first occurrence of marker
TextFollows(text, marker) ==
    \E i \in 1..Len(text) :
        /\ text[i] = marker
        /\ \A j \in 1..(i - 1) : text[j] # marker
        /\ \E k \in (i + 1)..Len(text) : text[k] # NL

\* The last three entries have the same tool and the same serialized input
LastThreeIdentical(h) ==
    /\ Len(h) >= 3
    /\ \A i \in (Len(h) - 2)..Len(h) :
          /\ h[i].tool = h[Len(h)].tool
          /\ h[i].tool_input = h[Len(h)].tool_input

UnknownToolReported == error # Absent /\ error[1] = "Tool" /\ error[Len(error)] = "not found"

\* C1 (as claimed): once tool_execution_node has reported an unknown tool,
\* no further reasoning turn and no further tool turn is executed.
C1_UnknownToolEndsRun ==
    [][UnknownToolReported => nodeExecs' = nodeExecs]_vars

\* C2 (as claimed): when the termination policy fired at a reasoning turn,
\* that turn ends the run whatever the model answered: no tool turn follows.
C2_ForcedTurnEndsRun == force => pc \in {"end", "done"}

\* C3 (as claimed): the answer run_qa_workflow returns is a non-empty text,
\* never None and never empty.
C3_AnswerNonEmpty == pc = "done" => Truthy(result.answer)

\* C4: every run terminates, within RecursionLimit node executions, and a
\* run the recursion limit ended returns the apologetic answer.
C4_RunTerminates ==
    /\ <>(pc = "done")
    /\ [](nodeExecs <= RecursionLimit)
    /\ [](raised = RecursionErrorText =>
            pc = "done" /\ result.answer = ApologeticAnswer)

C4_Witness ==
    /\ pc = "done" /\ nodeExecs = RecursionLimit /\ raised = RecursionErrorText
    /\ ~IsSet(final_answer) /\ result.answer = ApologeticAnswer

\* C5: an exception raised while the workflow is invoked is caught by
\* run_qa_workflow, which returns a result whose answer describes the failure
\* and whose error field is the exception's text.
C5_ExceptionBecomesResult ==
    raised # Absent =>
        /\ pc = "done"
        /\ result.question = question
        /\ result.error = raised
        /\ \/ result.answer = ApologeticAnswer
           \/ result.answer =
                <<"I encountered an error while processing your request:">> \o raised

C5_Witness ==
    /\ pc = "done" /\ raised \in ModelErrors /\ steps # <<>>
    /\ result.error = raised /\ Truthy(result.answer)

\* C6 (as claimed): a "TOOL:" marker before any "FINAL ANSWER:" marker always
\* yields a tool selection and no final answer; otherwise a "FINAL ANSWER:"
\* marker always yields a final answer; otherwise neither is produced.
C6_ParserPrecedence ==
    pc = "parsed" =>
        IF ToolBeforeFinal(reasoning_text)
        THEN IsSet(tool_name) /\ ~IsSet(final_answer)
        ELSE IF Contains(reasoning_text, "FINAL ANSWER:")
        THEN IsSet(final_answer) /\ ~IsSet(tool_name)
        ELSE ~IsSet(final_answer) /\ ~IsSet(tool_name)

\* C6 (amended): a "TOOL:" marker before any "FINAL ANSWER:" marker never
\* yields a final answer, and yields a tool selection exactly when text other
\* than whitespace follows the first "TOOL:" marker; otherwise a
\* "FINAL ANSWER:" marker yields a final answer exactly when text other than
\* whitespace follows the first such marker, and never a tool selection; in
\* every remaining case neither is produced.
C6_ParserPrecedenceAmended ==
    pc = "parsed" =>
        IF ToolBeforeFinal(reasoning_text)
        THEN /\ ~IsSet(final_answer)
             /\ IsSet(tool_name) <=> TextFollows(reasoning_text, "TOOL:")
        ELSE IF Contains(reasoning_text, "FINAL ANSWER:")
        THEN /\ ~IsSet(tool_name)
             /\ IsSet(final_answer) <=> TextFollows(reasoning_text, "FINAL ANSWER:")
        ELSE ~IsSet(final_answer) /\ ~IsSet(tool_name)

C6_Witness ==
    /\ pc = "parsed"
    /\ ToolBeforeFinal(reasoning_text) /\ Contains(reasoning_text, "FINAL ANSWER:")
    /\ tool_name = <<"calculator">> /\ ~IsSet(final_answer)

\* C7: final_answer and tool_name are never both set, and what is set comes
\* from the response of the latest reasoning turn: a tool name only if that
\* response has a "TOOL:" marker before any "FINAL ANSWER:" marker, a final
\* answer only if it has a "FINAL ANSWER:" marker.
C7_SelectionExclusive ==
    /\ ~(IsSet(final_answer) /\ IsSet(tool_name))
    /\ IsSet(tool_name) => ToolBeforeFinal(reasoning_text)
    /\ IsSet(final_answer) => Contains(reasoning_text, "FINAL ANSWER:")

C7_Witness ==
    /\ steps # <<>> /\ pc = "end"
    /\ IsSet(final_answer) /\ tool_name = NoneVal /\ tool_input = NoneDict

\* C8 (as claimed): the reason is "loop_detected" whenever the last three
\* entries have the same tool and the same serialized input, and only then.
C8_LoopDetected ==
    /\ LastThreeIdentical(steps) => force /\ reason = "loop_detected"
    /\ reason = "loop_detected" => LastThreeIdentical(steps)

\* C8 (amended): whenever the last three entries have the same tool and the
\* same serialized input the policy fires, with reason "loop_detected" unless
\* the last observation matches a complete-answer pattern, in which case the
\* reason is "complete_answer"; "loop_detected" is never returned otherwise.
C8_LoopDetectedAmended ==
    /\ LastThreeIdentical(steps) =>
          /\ force
          /\ reason = IF CompleteAnswerPattern(steps[Len(steps)])
                      THEN "complete_answer" ELSE "loop_detected"
    /\ reason = "loop_detected" => LastThreeIdentical(steps)

C8_Witness ==
    /\ LastThreeIdentical(steps) /\ Len(steps) = 3
    /\ force /\ reason = "loop_detected"

\* C9 (as claimed): the reason is "max_steps" for every history of ten or
\* more entries, and for no shorter one.
C9_MaxSteps ==
    /\ Len(steps) >= 10 => force /\ reason = "max_steps"
    /\ Len(steps) < 10 => reason # "max_steps"

\* C9 (amended): the policy fires for every history of ten or more entries,
\* with reason "max_steps" exactly when neither the last observation matches
\* a complete-answer pattern nor the last three entries are identical in tool
\* and input; "max_steps" is never returned for fewer than ten entries.
C9_MaxStepsAmended ==
    /\ Len(steps) >= 10 =>
          /\ force
          /\ reason = "max_steps" <=>
                /\ ~CompleteAnswerPattern(steps[Len(steps)])
                /\ ~LastThreeIdentical(steps)
    /\ Len(steps) < 10 => reason # "max_steps"

C9_Witness == Len(steps) = 10 /\ force /\ reason = "max_steps"

\* C10 (as claimed): every tool turn of a registered tool appends exactly one
\* history entry with the turn's thought, tool name, input and observation.
C10_ToolTurnAppends ==
    [][(pc = "tool" /\ IsRegistered(tool_name) /\ pc' = "reason") =>
          /\ IsSet(observation')
          /\ steps' = Append(steps, Step(thought, tool_name, StrDict(tool_input),
                                         observation'))]_vars

\* The failed requests among the outside calls made so far
FailedCalls == {i \in 1..Len(calls) : ~calls[i].ok}

\* C11 (as claimed): a failure of a model request reaches the caller only
\* after three failed requests, in the reasoning mode as in the
\* answer-generation mode.
C11_ReasoningRetried ==
    (fn \in {"generate_reasoning", "generate_answer"} /\ outcome.status = "raised")
        => Len(calls) = StopAfterAttempt /\ FailedCalls = 1..StopAfterAttempt

SearchCalls == {i \in 1..Len(calls) : calls[i].to = "search"}
PageCalls == {i \in 1..Len(calls) : calls[i].to = "page"}

\* The search of call i did not yield a top result
SearchFailed(i) == calls[i].to = "search" /\ (~calls[i].ok \/ calls[i].items = <<>>)

\* The message of the exception a failed search raises
FailureMessage(i) ==
    IF calls[i].ok THEN NoResultsMessage(tool_input.val) ELSE calls[i].value

\* C12: one invocation of search_and_extract makes at most three search
\* calls; it raises only after the third failed one and then raises that
\* one's exception; the page is fetched at most once, as the invocation's
\* last call, and no search follows it.
C12_SearchRetriedExtractionOnce ==
    fn = "search_and_extract" =>
        /\ Cardinality(SearchCalls) <= StopAfterAttempt
        /\ Cardinality(PageCalls) <= 1
        /\ \A i \in PageCalls : i = Len(calls) /\ outcome.status = "returned"
        /\ outcome.status = "raised" =>
              /\ Len(calls) = StopAfterAttempt
              /\ \A i \in 1..Len(calls) : SearchFailed(i)
              /\ outcome.value = FailureMessage(Len(calls))
        /\ outcome.status = "pending" =>
              /\ Len(calls) < StopAfterAttempt
              /\ \A i \in 1..Len(calls) : SearchFailed(i)

C12_Witness ==
    /\ fn = "search_and_extract" /\ outcome.status = "raised"
    /\ Len(calls) = 3 /\ ~calls[1].ok /\ calls[2].ok /\ ~calls[3].ok
    /\ calls[1].value # calls[3].value /\ outcome.value = calls[3].value

\* C13 (as claimed): search_and_extract raises only when the search API
\* returned zero results.
C13_RaisesOnlyOnZeroResults ==
    (fn = "search_and_extract" /\ outcome.status = "raised")
        => calls[Len(calls)].ok /\ calls[Len(calls)].items = <<>>

\* The page fetch of the invocation failed after a search with a top result
ExtractionFailed ==
    /\ fn = "search_and_extract" /\ outcome.status = "returned"
    /\ ~calls[Len(calls)].ok

\* The top result of the invocation's successful search
TopResult == calls[Len(calls) - 1].items[1]

\* C14 (as claimed): when the extraction fails after a successful search,
\* the result's content is the top result's snippet, title and url being
\* those of the top result.
C14_SnippetFallback ==
    ExtractionFailed =>
        /\ outcome.value.content = TopResult.snippet
        /\ outcome.value.title = Get(TopResult.title, <<>>)
        /\ outcome.value.url = Get(TopResult.link, <<>>)

\* C14 (amended): when the extraction fails after a successful search, the
\* call returns; the content is the top result's snippet if it has one and
\* the text "Content extraction failed" if it has none; title and url are
\* those of the top result.
C14_SnippetFallbackAmended ==
    ExtractionFailed =>
        /\ outcome.value.content =
              (IF TopResult.snippet # Absent THEN TopResult.snippet
               ELSE <<"Content extraction failed">>)
        /\ outcome.value.title = Get(TopResult.title, <<>>)
        /\ outcome.value.url = Get(TopResult.link, <<>>)

C14_Witness ==
    /\ ExtractionFailed /\ Len(calls) = 3
    /\ TopResult.snippet = <<"snippet">>
    /\ outcome.value.content = <<"snippet">>

\* A web_search tool turn with a query is executed while the search API
\* has no result for it
ZeroResultsTurn ==
    /\ pc = "tool" /\ tool_name = <<"web_search">> /\ tool_input.key = "query"
    /\ page = NoResults
    /\ nodeExecs' = nodeExecs + 1

\* C15: a web_search turn whose search yields zero results stores the
\* observation "Error searching web: No Google search results found for
\* query: <query>", appends it to the history, raises nothing and hands
\* over to the next reasoning turn.
C15_ZeroResultsObserved ==
    [][ZeroResultsTurn =>
          /\ observation' = <<"Error searching web:">> \o NoResultsMessage(tool_input.val)
          /\ steps' = Append(steps, Step(thought, tool_name, StrDict(tool_input),
                                         observation'))
          /\ raised' = Absent /\ error' = error
          /\ pc' = "reason"]_vars

C15_Witness ==
    /\ page = NoResults /\ steps # <<>>
    /\ steps[Len(steps)].tool = <<"web_search">>
    /\ steps[Len(steps)].observation[1] = "Error searching web:"
    /\ pc = "tool" /\ nodeExecs >= 3 /\ raised = Absent

\* The spellings of the disallowed tokens among the expressions' tokens
DisallowedSpellings == {"import", "IMPORT", "eval", "Eval", "exec", "EXEC", "__"}

HasDisallowedToken(expression) ==
    \E i \in 1..Len(expression) : expression[i] \in DisallowedSpellings

\* C16: for an expression containing a disallowed token in any letter case,
\* CalculatorTool.execute returns "Error: Invalid expression" and makes no
\* eval call.
C16_DisallowedNeverEvaluated ==
    (fn = "CalculatorTool.execute" /\ outcome.status = "returned"
        /\ HasDisallowedToken(tool_input.val))
        => /\ observation = <<"Error:", "Invalid expression">>
           /\ calls = <<>>

C16_Witness ==
    /\ fn = "CalculatorTool.execute" /\ outcome.status = "returned"
    /\ tool_input.val = <<"2 + 2", "IMPORT", "os">>
    /\ observation = <<"Error:", "Invalid expression">> /\ calls = <<>>

\* DateCalculatorTool.execute has returned from a call with this keyword
DateCallReturned(key) ==
    /\ fn = "DateCalculatorTool.execute" /\ outcome.status = "returned"
    /\ tool_input.key = key

\* The weekday that lies d days after (before, if d < 0) the weekday name
WeekdayAfter(name, d) ==
    LET i == CHOOSE k \in 1..7 : WeekdayNames[k] = name
    IN  WeekdayNames[((i - 1 + d) % 7) + 1]

\* C17: the weekday DateCalculatorTool.execute(days=d) reports, with the
\* date it prints for it, is the weekday of day today + d: the one d days
\* after today's weekday in the week's cycle, day 0 being a Thursday.
C17_WeekdayOfOffset ==
    DateCallReturned("days") =>
        LET d == tool_input.num
            reported == IF d = 0 THEN observation[2] ELSE observation[Len(observation)]
        IN  /\ reported = WeekdayAfter("Thursday", today + d)
            /\ reported = WeekdayAfter(Weekday(today), d)
            /\ d # 0 => /\ observation[4] = Weekday(today)
                        /\ observation[12] = reported
                        /\ observation[15] = ToString(today + d)

C17_Witness ==
    /\ DateCallReturned("days") /\ tool_input.num = 0 - 10 /\ today = 1
    /\ observation[Len(observation)] = "Tuesday"

\* C18 (as claimed): for a target date text that parses to a date,
\* execute(target_date=...) reports "Days until" with the positive count
\* when the date is after today, "Days since ... days ago" with the positive
\* count when it is before today, and "is today" without a count when it is
\* today.
C18_TargetDateSign ==
    (DateCallReturned("target_date") /\ ParsesAsDate(tool_input.val)) =>
        LET target == ParseDate(tool_input.val)
            n == Len(observation)
        IN  /\ target > today =>
                 /\ observation[1] = "Days until"
                 /\ observation[n - 1] = ToString(target - today)
                 /\ observation[n] = "days"
            /\ target < today =>
                 /\ observation[1] = "Days since"
                 /\ observation[n - 1] = ToString(today - target)
                 /\ observation[n] = "days ago"
            /\ target = today =>
                 observation = <<"The target date">> \o ShortDate(target)
                                  \o <<"is today!">>

\* The credential an error message of component construction names
NamedCredential(msg) ==
    CASE msg = <<"ANTHROPIC_API_KEY not found in environment variables or provided">>
            -> "ANTHROPIC_API_KEY"
      [] msg = <<"Google API key is required. Set GOOGLE_API_KEY environment variable.">>
            -> "GOOGLE_API_KEY"
      [] msg = <<"Google Search Engine ID is required. Set GOOGLE_SEARCH_ENGINE_ID environment variable.">>
            -> "GOOGLE_SEARCH_ENGINE_ID"
      [] OTHER -> ""

\* C19: when a credential is missing, no request is ever sent to the model
\* or the search service, no reasoning turn completes and no tool runs; the
\* run ends at the first node with an error that names a missing credential.
C19_MissingCredentialFailsFast ==
    (pc \in {"reason", "tool", "end", "done"} /\ Credentials \ env # {}) =>
        /\ netCalls = 0 /\ reasoning_text = <<>> /\ steps = <<>>
        /\ pc \in {"reason", "done"}
        /\ pc = "reason" => nodeExecs = 0
        /\ pc = "done" =>
              /\ nodeExecs = 1
              /\ NamedCredential(raised) \in Credentials \ env
              /\ result.error = raised

C19_Witness ==
    /\ pc = "done" /\ env = {"ANTHROPIC_API_KEY"} /\ netCalls = 0
    /\ question = <<"What is", "15 * 23 + 47", "?">>
    /\ NamedCredential(raised) = "GOOGLE_API_KEY"

\* C20: the CLI exits with 0, having printed the returned answer, whenever
\* run_qa_workflow returned, also when the result carries an error; it exits
\* with 1 only when an exception left run_qa_workflow, which happens only
\* before the first node of the loop ran.
C20_ExitCodes ==
    /\ exit_code \in {-1, 0, 1}
    /\ (exit_code = -1) <=> (pc # "exited")
    /\ pc = "exited" =>
          /\ (exit_code = 0) <=> (result # NoResult)
          /\ exit_code = 0 =>
                /\ SubSeq(stdout, 1, 1 + Len(PyStr(result.answer)))
                      = <<"Answer:">> \o PyStr(result.answer)
                /\ Truthy(result.error) => stdout[Len(stdout)] = result.error[Len(result.error)]
          /\ exit_code = 1 =>
                /\ nodeExecs = 0 /\ netCalls = 0 /\ raised = Absent
                /\ workflow # "compiled"

C20_Witness ==
    /\ pc = "exited" /\ exit_code = 0
    /\ raised = RecursionErrorText /\ result.error = raised
    /\ stdout = <<"Answer:">> \o ApologeticAnswer \o <<"Note:">> \o raised

\* The first history entry is a datecalculator call with a positive day
\* offset: its observation holds "will be a"
PositiveOffsetFirst ==
    /\ steps # <<>>
    /\ steps[1].tool = <<"datecalculator">>
    /\ Contains(steps[1].observation, "will be a")

\* C21 (as claimed): after datecalculator ran with a positive day offset,
\* the policy fires with complete_answer on the next reasoning turn and that
\* turn issues the final answer: no second tool call is made.
C21_DateOffsetThenAnswer ==
    (PositiveOffsetFirst /\ raised = Absent) =>
        /\ Len(steps) = 1
        /\ pc # "reason" =>
              /\ force /\ reason = "complete_answer"
              /\ pc \in {"end", "done"}
              /\ IsSet(final_answer)

\* The last node executed was a reasoning turn that returned its updates
AfterReasoningTurn == pc \in {"tool", "end"}

\* The INPUT: section of a response: what follows the first "INPUT:" up to
\* the next marker or the end of the text, without surrounding whitespace
InputSection(text) ==
    LET i == CHOOSE k \in 1..Len(text) :
                 text[k] = "INPUT:" /\ \A l \in 1..(k - 1) : text[l] # "INPUT:"
        Ends == {k \in (i + 1)..Len(text) :
                    text[k] \in {"THOUGHT:", "TOOL:", "FINAL ANSWER:"}}
                \cup {Len(text) + 1}
        j == CHOOSE k \in Ends : \A l \in Ends : k <= l
    IN  Strip(SubSeq(text, i + 1, j - 1))

\* A text without one pair of surrounding quotes of the same kind
Unquoted(text) ==
    IF Len(text) >= 2 /\ text[1] = text[Len(text)] /\ text[1] \in {"'", "\""}
    THEN SubSeq(text, 2, Len(text) - 1)
    ELSE text

\* C22: a calculator turn passes the INPUT: section, without its
\* surrounding quotes, as the expression; the expression 15 * 23 + 47 is
\* observed as "Result: 392"; and after a calculator entry whose observation
\* starts with "Result:" the policy fires with complete_answer on the next
\* reasoning turn.
C22_CalculatorVerbatim ==
    /\ (AfterReasoningTurn /\ tool_name = <<"calculator">>
            /\ Contains(reasoning_text, "INPUT:"))
        => tool_input = Dict("expression", Unquoted(InputSection(reasoning_text)))
    /\ \A i \in 1..Len(steps) :
          (steps[i].tool = <<"calculator">>
              /\ steps[i].tool_input = StrDict(Dict("expression", <<"15 * 23 + 47">>)))
          => steps[i].observation = <<"Result:", "392">>
    /\ (AfterReasoningTurn /\ steps # <<>>
            /\ steps[Len(steps)].tool = <<"calculator">>
            /\ steps[Len(steps)].observation[1] = "Result:")
        => force /\ reason = "complete_answer"

C22_Witness ==
    /\ AfterReasoningTurn /\ Len(steps) = 1
    /\ steps[1].tool_input = StrDict(Dict("expression", <<"2 + 2">>))
    /\ steps[1].observation = <<"Result:", "4">>
    /\ force /\ reason = "complete_answer"
    /\ reasoning_text = ToolCall("calculator", <<"'", "2 + 2", "'">>)
    /\ tool_input = Dict("expression", <<"2 + 2">>)

\* earlier is a prefix of later
IsPrefix(earlier, later) ==
    /\ Len(earlier) <= Len(later)
    /\ SubSeq(later, 1, Len(earlier)) = earlier

\* C23: the history is append-only: every step of a run leaves the history
\* a prefix of the new history (no entry modified, reordered or removed),
\* and a step that changes the history is a tool turn appending one entry.
C23_AppendOnly ==
    [][/\ IsPrefix(steps, steps')
       /\ steps' # steps =>
             /\ pc = "tool" /\ pc' = "reason"
             /\ Len(steps') = Len(steps) + 1]_vars

C23_Witness ==
    /\ pc = "reason" /\ Len(steps) = 3
    /\ steps[1] # steps[2] /\ steps[2] # steps[3]

\* C24: the final answer is terminal: once it is set no reasoning or tool
\* turn runs (the run is at END or has returned), it is never changed
\* afterwards, and it is the answer run_qa_workflow returns.
C24_FinalAnswerTerminal ==
    [][/\ IsSet(final_answer) =>
             /\ pc \in {"end", "done"}
             /\ final_answer' = final_answer
             /\ nodeExecs' = nodeExecs
       /\ (IsSet(final_answer') /\ pc' = "done") =>
             result'.answer = final_answer']_vars

C24_Witness ==
    /\ pc = "done" /\ steps # <<>>
    /\ final_answer = <<"ans">> /\ result.answer = <<"ans">>

\* The loop's DONE: the graph reached END or the run has returned
Done(at) == at \in {"end", "done"}

\* A reasoning turn that returned its updates / a tool turn, as steps
ReasoningTurn == pc = "reason" /\ nodeExecs' = nodeExecs + 1 /\ raised' = raised
ToolTurn == pc = "tool" /\ nodeExecs' = nodeExecs + 1

\* The parts of the loop's shape that do not concern how DONE is reached: a
\* tool turn comes directly after a reasoning turn that selected a tool and
\* is followed by a reasoning turn; a reasoning turn goes to the tool turn
\* when it selected a tool and to DONE otherwise
TurnsAlternate ==
    /\ (pc' = "tool" /\ pc # "tool") => ReasoningTurn /\ Truthy(tool_name')
    /\ ToolTurn => pc' = "reason"
    /\ ReasoningTurn =>
          IF Truthy(tool_name') THEN pc' = "tool" ELSE Done(pc')

\* DONE is entered only by a reasoning turn that selected no tool
DoneAfterReasoningOnly ==
    (Done(pc') /\ ~Done(pc)) => (ReasoningTurn /\ ~Truthy(tool_name'))

\* DONE is entered by a reasoning turn that selected no tool, by a reasoning
\* turn that raised, or by the recursion limit stopping the graph
DoneAfterReasoningOrError ==
    (Done(pc') /\ ~Done(pc)) =>
        \/ ReasoningTurn /\ ~Truthy(tool_name')
        \/ pc = "reason" /\ raised = Absent /\ raised' # Absent
        \/ pc = "tool" /\ nodeExecs >= RecursionLimit /\ raised' = RecursionErrorText

\* C25 as stated: the run starts with a reasoning turn on an empty history,
\* tool turns and reasoning turns alternate, and DONE is reached exactly
\* after a reasoning turn that produced a final answer or produced neither a
\* tool nor a final answer.
C25_LoopShape ==
    /\ (pc = "reason" /\ steps = <<>>)
    /\ [][TurnsAlternate /\ DoneAfterReasoningOnly]_vars

\* C25, amended: as above, but DONE is also reached when a reasoning turn
\* raises and when the graph's recursion limit is reached after a turn that
\* selected a tool.
C25_LoopShapeAmended ==
    /\ (pc = "reason" /\ steps = <<>>)
    /\ [][TurnsAlternate /\ DoneAfterReasoningOrError]_vars

C25_Witness ==
    /\ pc = "done" /\ nodeExecs = 5 /\ Len(steps) = 2
    /\ raised = Absent /\ final_answer = <<"ans">>

\* The verdict reasoning_node works with on a turn over the given history
TurnVerdict(history) ==
    IF history = <<>> THEN <<FALSE, "">> ELSE should_force_final_answer(history)

\* Every reasoning turn sets the verdict to the policy's value on the
\* history of that turn, and no other step changes it
VerdictPerTurn ==
    IF ReasoningTurn THEN <<force', reason'>> = TurnVerdict(steps)
    ELSE UNCHANGED <<force, reason>>

\* C26: the policy is evaluated once per reasoning turn, on the history of
\* that turn; while the history is empty nothing fires and no directive is
\* injected, and should_force_final_answer of an empty history does not fire.
C26_PolicyOncePerTurn ==
    /\ [](steps = <<>> => (~force /\ reason = ""))
    /\ [](should_force_final_answer(<<>>) = <<FALSE, "">>)
    /\ [][VerdictPerTurn]_vars

C26_Witness ==
    /\ AfterReasoningTurn /\ Len(steps) = 2 /\ ~force
    /\ should_force_final_answer(SubSeq(steps, 1, 1))[1]

\* C27: complete_answer comes only from patterns of the tool that produced
\* the last observation: the policy never returns complete_answer when the
\* last entry of the history was produced by web_search.
C27_NoCompleteAnswerAfterSearch ==
    (steps # <<>> /\ steps[Len(steps)].tool = <<"web_search">>)
        => should_force_final_answer(steps)[2] # "complete_answer"

--------------------------------------------------------------------------
(* workflow.py: one reasoning turn whose response names a tool and has no  *)
(* INPUT: section, for every question of at most MaxQuestionLen tokens     *)
(* over QuestionAlphabet                                                   *)

MaxQuestionLen == 3

QuestionAlphabet ==
    {"What day was it", "10", "30", "days", "ago", "until", "Until", "Days to", "?"}

Questions == UNION {[1..n -> QuestionAlphabet] : n \in 0..MaxQuestionLen}

FallbackInit ==
    /\ fn = "reasoning_node"
    /\ attempts = 0 /\ calls = <<>> /\ outcome = Pending
    /\ question \in Questions
    /\ tool_name = Absent /\ tool_input = NoneDict
    /\ repertoire = {ToolCallNoInput(name[1]) : name \in RegisteredTools}
    /\ today = 0 /\ page = <<"content">> /\ env = Credentials
    /\ thought = Absent
    /\ observation = Absent /\ final_answer = Absent /\ error = Absent
    /\ steps = <<>>
    /\ pc = "fallback" /\ nodeExecs = 0
    /\ force = FALSE /\ reason = "" /\ reasoning_text = <<>>
    /\ raised = Absent /\ result = NoResult
    /\ netCalls = 0 /\ CliRunning

\* reasoning_node's parsing of a response without INPUT: section
reasoning_node_no_input ==
    /\ fn = "reasoning_node" /\ outcome.status = "pending"
    /\ \E text \in repertoire :
          LET updates == ReasoningUpdates(text, question)
          IN  /\ reasoning_text' = text
              /\ thought' = updates.thought
              /\ tool_name' = updates.tool_name
              /\ tool_input' = updates.tool_input
              /\ final_answer' = updates.final_answer
              /\ outcome' = Returned(StrDict(updates.tool_input))
    /\ attempts' = attempts + 1
    /\ UNCHANGED <<fn, calls, observation, steps, error, pc, nodeExecs, force, reason,
                   raised, result, Environment, netCalls, Cli>>

FallbackSpec == FallbackInit /\ [][reasoning_node_no_input]_vars

\* The question asks about the past
AsksPast(q) == Contains(Lower(q), "ago")

\* C28: a response that selects datecalculator without INPUT: takes the
\* input from the question: empty when the question contains "until" or
\* "days to" in any case, else days = the first integer of the question
\* with the sign the question asks for (negative for "N days ago"), else
\* days = 0; every other tool gets an empty input.
C28_QuestionFallback ==
    (fn = "reasoning_node" /\ outcome.status = "returned") =>
        IF tool_name = <<"datecalculator">>
        THEN IF Contains(Lower(question), "until") \/ Contains(Lower(question), "days to")
             THEN tool_input = EmptyDict
             ELSE IF DigitRuns(question) # <<>>
             THEN tool_input = DaysDict(IF AsksPast(question)
                                        THEN 0 - IntOf(DigitRuns(question)[1])
                                        ELSE IntOf(DigitRuns(question)[1]))
             ELSE tool_input = DaysDict(0)
        ELSE tool_input = EmptyDict

--------------------------------------------------------------------------
(* workflow.py: parse_tool_input called on its own for datecalculator,    *)
(* with every text of at most MaxInputLen tokens over InputAlphabet, bare, *)
(* in quotes, and inside a {'target_date': '...'} literal                  *)

MaxInputLen == 2

InputAlphabet == {"10", "1", "-", "date", "x"}

InputCores == UNION {[1..n -> InputAlphabet] : n \in 0..MaxInputLen}

Quoted(q1, text, q2) == <<q1>> \o text \o <<q2>>
Literal(q, text) == <<"{", q, "target_date", q, ":", q>> \o text \o <<q, "}">>

DateInputs ==
    InputCores
    \cup {Quoted(q1, c, q2) : q1 \in {"'", "\""}, q2 \in {"'", "\""}, c \in InputCores}
    \cup {Literal(q, c) : q \in {"'", "\""}, c \in InputCores}
    \cup {Quoted("'", Literal("\"", c), "'") : c \in InputCores}

ParseInputInit ==
    /\ fn = "parse_tool_input"
    /\ attempts = 0 /\ calls = <<>> /\ outcome = Pending
    /\ tool_name = <<"datecalculator">> /\ tool_input = NoneDict
    /\ question = <<"How many days", "until", "Christmas?">>
    /\ repertoire = {} /\ today = 0 /\ page = <<"content">> /\ env = Credentials
    /\ thought = Absent
    /\ observation = Absent /\ final_answer = Absent /\ error = Absent
    /\ steps = <<>>
    /\ pc = "parse_tool_input" /\ nodeExecs = 0
    /\ force = FALSE /\ reason = "" /\ reasoning_text = <<>>
    /\ raised = Absent /\ result = NoResult
    /\ netCalls = 0 /\ CliRunning

\* parse_tool_input('datecalculator', raw_input): calls records the argument
parse_tool_input_call ==
    /\ fn = "parse_tool_input" /\ outcome.status = "pending"
    /\ \E raw_input \in DateInputs :
          /\ calls' = <<[to |-> "parse_tool_input", ok |-> TRUE, value |-> raw_input]>>
          /\ tool_input' = parse_tool_input(tool_name, raw_input)
          /\ outcome' = Returned(StrDict(tool_input'))
    /\ attempts' = attempts + 1
    /\ UNCHANGED <<fn, thought, tool_name, observation, final_answer, steps, error,
                   pc, nodeExecs, force, reason, reasoning_text, raised, result,
                   Environment, netCalls, Cli>>

ParseInputSpec == ParseInputInit /\ [][parse_tool_input_call]_vars

\* A text without its pair of surrounding quotes of the same kind
OuterQuotesRemoved(text) ==
    IF text # <<>> /\ IsQuote(text[1]) /\ text[Len(text)] = text[1]
    THEN SubSeq(text, 2, Len(text) - 1)
    ELSE text

\* The text inside a {'target_date': '...'} literal, or the text itself
LiteralBody(text) ==
    LET n == Len(text)
    IN  IF /\ n >= 9
           /\ text[1] = "{" /\ IsQuote(text[2]) /\ text[3] = "target_date"
           /\ IsQuote(text[4]) /\ text[5] = ":" /\ IsQuote(text[6])
           /\ IsQuote(text[n - 1]) /\ text[n] = "}"
        THEN SubSeq(text, 7, n - 2)
        ELSE text

\* C29: parse_tool_input for datecalculator returns exactly one of days and
\* target_date: with the surrounding quotes removed and a target_date
\* literal unwrapped, a bare integer with an optional minus sign becomes
\* days (with its value) and every other text becomes target_date.
C29_DaysOrTargetDate ==
    (fn = "parse_tool_input" /\ outcome.status = "returned") =>
        LET text == LiteralBody(OuterQuotesRemoved(calls[1].value))
        IN  /\ tool_input.key \in {"days", "target_date"}
            /\ IF Len(text) = 1 /\ text[1] \in Numerals
               THEN tool_input = DaysDict(IntOf(text[1]))
               ELSE IF Len(text) = 2 /\ text[1] = "-" /\ text[2] \in Numerals
               THEN tool_input = DaysDict(0 - IntOf(text[2]))
               ELSE tool_input = Dict("target_date", text)

C29_Witness ==
    /\ fn = "parse_tool_input" /\ outcome.status = "returned"
    /\ calls[1].value = Quoted("'", Literal("\"", <<"-", "10">>), "'")
    /\ tool_input = DaysDict(0 - 10)

--------------------------------------------------------------------------
(* google_search.py: _extract_content called on its own.  Here a text is  *)
(* a sequence of single characters: page is the text of the fetched page   *)
(* after the whitespace clean-up, at most MaxPageLen characters, and the   *)
(* budget max_length is 1..MaxBudget.                                      *)

MaxPageLen == 4
MaxBudget == 3

PageTexts == UNION {[1..n -> {"a", "b"}] : n \in 0..MaxPageLen}

\* if max_length and len(text) > max_length: text = text[:max_length] + "..."
LimitLength(text, max_length) ==
    IF max_length # 0 /\ Len(text) > max_length
    THEN SubSeq(text, 1, max_length) \o <<".", ".", ".">>
    ELSE text

ExtractInit ==
    /\ fn = "_extract_content"
    /\ attempts = 0 /\ calls = <<>> /\ outcome = Pending
    /\ page \in PageTexts
    /\ \E max_length \in 1..MaxBudget :
          tool_input = [key |-> "max_length", val |-> <<>>, num |-> max_length]
    /\ tool_name = <<"web_search">>
    /\ question = <<"Who won the", "2024", "Super Bowl?">>
    /\ repertoire = {} /\ today = 0 /\ env = Credentials
    /\ thought = Absent
    /\ observation = Absent /\ final_answer = Absent /\ error = Absent
    /\ steps = <<>>
    /\ pc = "_extract_content" /\ nodeExecs = 0
    /\ force = FALSE /\ reason = "" /\ reasoning_text = <<>>
    /\ raised = Absent /\ result = NoResult
    /\ netCalls = 0 /\ CliRunning

\* _extract_content(url, max_length) for a page that is fetched and parsed
extract_content ==
    /\ fn = "_extract_content" /\ outcome.status = "pending"
    /\ observation' = LimitLength(page, tool_input.num)
    /\ outcome' = Returned(observation')
    /\ attempts' = attempts + 1
    /\ netCalls' = netCalls + 1
    /\ UNCHANGED <<fn, calls, thought, tool_name, tool_input, final_answer, steps,
                   error, pc, nodeExecs, force, reason, reasoning_text, raised,
                   result, Environment, Cli>>

ExtractSpec == ExtractInit /\ [][extract_content]_vars

\* C30: the content _extract_content returns has at most max_length
\* characters, for every page text and every budget.
C30_ContentWithinBudget ==
    (fn = "_extract_content" /\ outcome.status = "returned")
        => Len(observation) <= tool_input.num

--------------------------------------------------------------------------
\* C31: the question is immutable: no step of a run changes it, and the
\* result run_qa_workflow returns, on the normal and on the error path,
\* carries the question that was passed in.
C31_QuestionImmutable ==
    /\ [][question' = question]_vars
    /\ [](pc = "done" => result.question = question)

C31_Witness ==
    /\ pc = "done" /\ steps # <<>> /\ IsSet(error) /\ raised = Absent
    /\ result.question = <<"What is", "15 * 23 + 47", "?">>

\* A tool turn that fails in tool_execution_node: no tool selected, the
\* name is not registered, or execute(**tool_input) raises
FailedToolTurn ==
    /\ ToolTurn
    /\ \/ ~Truthy(tool_name)
       \/ tool_name \notin RegisteredTools
       \/ tool_input.key \notin AcceptedKeys(tool_name)

\* C32: a tool turn that fails in tool_execution_node sets the error field
\* and leaves the history, the stored observation and every other field
\* unchanged, so the verdict of every reasoning turn is the policy's value
\* on a history without any trace of the failed turns.
C32_FailedTurnInvisible ==
    /\ [][FailedToolTurn =>
             /\ steps' = steps /\ observation' = observation
             /\ IsSet(error') /\ Truthy(error')
             /\ UNCHANGED <<thought, tool_name, tool_input, final_answer>>]_vars
    /\ [](AfterReasoningTurn => <<force, reason>> = TurnVerdict(steps))
    /\ [](\A i \in 1..Len(steps) : steps[i].tool \in RegisteredTools)

C32_Witness ==
    /\ pc = "reason" /\ Len(steps) = 1
    /\ observation = <<"Result:", "4">> /\ steps[1].observation = observation
    /\ error[1] = "Tool execution error:"

\* C33: the error field is sticky: once set it is never cleared by a later
\* turn, and the result returned after the graph ended carries it, also
\* next to a final answer the model produced.
C33_ErrorSticky ==
    /\ [][IsSet(error) => IsSet(error')]_vars
    /\ []((pc = "done" /\ raised = Absent) =>
             /\ result.error = Get(error, NoneVal)
             /\ result.answer = Get(final_answer, DefaultAnswer))

C33_Witness ==
    /\ pc = "done" /\ raised = Absent
    /\ result.answer = <<"ans">> /\ final_answer = <<"ans">>
    /\ result.error[1] = "Tool execution error:"
    /\ Len(steps) = 1

\* C34: the policy returns one reason by the fixed priority
\* complete_answer, loop_detected, max_steps: complete_answer when the last
\* observation matches a complete-answer pattern, loop_detected when it does
\* not and the last three entries are identical in tool and input,
\* max_steps when neither holds and the history has ten entries or more;
\* it fires exactly when one of the three conditions holds.
C34_ReasonPriority ==
    LET complete == steps # <<>> /\ CompleteAnswerPattern(steps[Len(steps)])
        looping == LastThreeIdentical(steps)
        capped == Len(steps) >= 10
    IN  /\ force <=> (complete \/ looping \/ capped)
        /\ force <=> reason # ""
        /\ reason \in {"", "complete_answer", "loop_detected", "max_steps"}
        /\ reason = "complete_answer" <=> complete
        /\ reason = "loop_detected" <=> (~complete /\ looping)
        /\ reason = "max_steps" <=> (~complete /\ ~looping /\ capped)

C34_Witness ==
    /\ Len(steps) = 10 /\ LastThreeIdentical(steps)
    /\ CompleteAnswerPattern(steps[10])
    /\ force /\ reason = "complete_answer"

\* C35: in every reachable state of a run the history holds at most 12
\* entries, whatever the model answers to the policy's directives: every
\* entry costs a reasoning turn and a tool turn of the RecursionLimit node
\* executions.
C35_HistoryBounded ==
    /\ Len(steps) <= 12
    /\ 2 * Len(steps) <= nodeExecs
    /\ nodeExecs <= RecursionLimit

C35_Witness ==
    /\ Len(steps) = 12 /\ pc = "done"
    /\ nodeExecs = RecursionLimit /\ raised = RecursionErrorText

====
